---- MODULE Spec2Model ----
(***************************************************************************)
(* Model of quick (an HTTP-over-QUIC client).  The benchmark engine:       *)
(*   - bmStat and its operations                 (src/form.go 270-402),    *)
(*   - aggregateStatFromReqCtx and reqCtxPool    (src/form.go 404-451),    *)
(*   - runReqsInParallel, slot-loop revision     (src/form.go 453-538),    *)
(*   - runReqsInParallel, latch revision         (src/benchmark.go 99-176),*)
(*   - runInBenchmarkMode                        (src/quick.go 598-637),   *)
(*   - createReq and fatal            (src/quick.go 459-506, 387-390);     *)
(* and the command line:                                                   *)
(*   - checkArgs, run and main        (src/quick.go 200-339, 639-671),     *)
(*   - resolveValue.Set and resolveAddr          (src/resolver.go 24-53),  *)
(*   - formValue.Set                             (src/form.go 54-152),     *)
(*   - cookieManager dump, load and String (src/cookie_manager.go 115-280).*)
(***************************************************************************)
EXTENDS Integers, Sequences, FiniteSets, TLC

\* ------------------------------------------------------------------ bounds
MaxReqPerConn == 2    \* largest config.bmReqPerConn explored
MaxAttempts == 2      \* requests issued in a run, all connections together
MaxDuration == 2      \* largest config.bmDuration explored (histogram range)
MaxOutcomes == 3      \* outcomes recorded in the statistics specification
ExtraAttempts == 1    \* attempts beyond the capacity of reqCtxCh in a loop run
MaxTimeout == 3       \* largest -max-time, -connect-timeout, -idle-timeout explored
MaxResolve == 3       \* most -resolve options on a command line
MaxCookies == 2       \* most cookies set in the jar that is dumped
MaxFormLen == 5       \* longest -F value explored, in symbols
MaxForms == 1         \* most -F options read after those of the initial state

VARIABLES
    config,      \* quickConfig: bmConn, bmReqPerConn, bmDuration
    rev,         \* revision of the engine: "histogram" (form.go) | "latch" (benchmark.go)
    stats,       \* runInBenchmarkMode: stats[i], one bmStat per connection
    total,       \* printStats: the merged stat that is printed
    coordPc,     \* runInBenchmarkMode: "wait" (wg.Wait) | "printed"
    wg,          \* runInBenchmarkMode: sync.WaitGroup counter
    cancelled,   \* runInBenchmarkMode: the cancelled channel is closed
    sigC,        \* runInBenchmarkMode: signals buffered in c (capacity 1)
    sigPc,       \* the goroutine of quick.go 621-624: "recv" | "exited"
    mainPc,      \* per worker: "loop" | "wait" | "drain" | "finished"
    branch,      \* per worker: shutdown branch taken: "none" | "timeout" | "cancel"
    timer,       \* per worker: "armed" | "taken" (the loop has received from timer.C)
    done,        \* per worker: the done channel is closed (form.go)
    reqWg,       \* per worker: reqWg counter
    latch,       \* per worker: tokens in the latch channel (benchmark.go)
    reqCtxCh,    \* per worker: queue of *reqCtx (addresses)
    slotPc,      \* per worker and slot: "start" | "do" | "select" | "push" | "exited" | "idle"
    slotCtx,     \* per worker and slot: address of the reqCtx the slot holds, 0 if none
    heap,        \* address -> reqResult of the reqCtx at that address
    live,        \* addresses of allocated reqCtx objects
    reqCtxPool,  \* addresses held by the sync.Pool
    issued,      \* per worker: requests issued (hclient.Do called)
    ctxConn,     \* address -> connection whose slot took that reqCtx last, 0 if none
    shards,      \* statistics specification: independent stats
    whole,       \* statistics specification: one stat fed every outcome
    argsPc,      \* main: "parsed" (flag.Parse has run) | "checked" (checkArgs has returned)
    flags,       \* the configuration as flag.Parse left it
    err,         \* the error the last call returned, "nil" if none
    cookiePc,    \* "filling" (cookies are set) | "dumped" | "loaded"
    jar,         \* the cookies of the cookie manager that is dumped, in DumpCookies order
    file,        \* the text Dump has written
    freshJar,    \* the cookies of the fresh cookie manager that loads the file
    oldReq,      \* address -> reqCtx.oldReq: the request of the last attempt, NilReq if none
    opened,      \* bodies that data.Open / forms.Open have returned so far
    built,       \* requests that http.NewRequest has returned so far
    readBy       \* body -> attempts (calls of hclient.Do) whose request holds that body

vars == <<config, rev, stats, total, coordPc, wg, cancelled, sigC, sigPc,
          mainPc, branch, timer, done, reqWg, latch, reqCtxCh, slotPc, slotCtx,
          heap, live, reqCtxPool, issued, ctxConn, shards, whole,
          argsPc, flags, err, cookiePc, jar, file, freshJar,
          oldReq, opened, built, readBy>>

runVars == <<stats, total, coordPc, wg, cancelled, sigC, sigPc,
             mainPc, branch, timer, done, reqWg, latch, reqCtxCh, slotPc, slotCtx,
             heap, live, reqCtxPool, issued, ctxConn,
             oldReq, opened, built, readBy>>

statVars == <<shards, whole>>

\* the requests and bodies that createReq makes
reqVars == <<oldReq, opened, built, readBy>>

\* the command-line stage (checkArgs and the flag values)
cliVars == <<argsPc, flags, err, cookiePc, jar, file, freshJar>>

\* the cookie managers and the cookie file
cookieVars == <<cookiePc, jar, file, freshJar>>

Revisions == {"histogram", "latch"}

\* ----------------------------------------------------------- reqResult
NoErr == "nil"
Errs == {"timeout", "refused"}

\* reqResult after zero() / a fresh reqResult{}
ZeroRes == [err |-> NoErr, statusCode |-> 0, time |-> 0]

\* what one attempt can produce: hclient.Do / readResp fail with an error
\* (statusCode stays 0), or the response's status code is stored
ErrOutcomes == {[err |-> "timeout", statusCode |-> 0, time |-> MaxDuration + 1],
                [err |-> "refused", statusCode |-> 0, time |-> 0],
                [err |-> "timeout", statusCode |-> 0, time |-> 1]}
StatusOutcomes == {[err |-> NoErr, statusCode |-> 100, time |-> 0],
                   [err |-> NoErr, statusCode |-> 200, time |-> 1],
                   [err |-> NoErr, statusCode |-> 399, time |-> MaxDuration + 1],
                   [err |-> NoErr, statusCode |-> 400, time |-> 1],
                   [err |-> NoErr, statusCode |-> 404, time |-> 0]}
Outcomes == ErrOutcomes \cup StatusOutcomes

\* the outcomes drawn while a run is explored
RunOutcomes == {[err |-> "refused", statusCode |-> 0, time |-> 0],
                [err |-> NoErr, statusCode |-> 404, time |-> 1]}

\* --------------------------------------------------------------- bmStat
EmptyMap == [k \in {} |-> 0]

\* hdrhistogram.New(0, max, 5): no sample recorded
NewHistogram(max) == [max |-> max, counts |-> EmptyMap]

\* Histogram.RecordValues(v, n): rejected outside the trackable range
InRange(h, v) == v >= 0 /\ v <= h.max

RecordValues(h, v, n) ==
    IF InRange(h, v)
    THEN [h EXCEPT !.counts =
            [x \in DOMAIN h.counts \cup {v} |->
                IF x \in DOMAIN h.counts
                THEN h.counts[x] + (IF x = v THEN n ELSE 0)
                ELSE n]]
    ELSE h

\* Histogram.Merge(from): every bar of from is recorded into h
RECURSIVE MergeBars(_, _, _)
MergeBars(h, from, todo) ==
    IF todo = {} THEN h
    ELSE LET v == CHOOSE x \in todo : \A y \in todo : x <= y
         IN MergeBars(RecordValues(h, v, from.counts[v]), from, todo \ {v})

HistogramMerge(h, from) == MergeBars(h, from, DOMAIN from.counts)

\* &bmStat{} of benchmark.go: no histogram
ZeroStat ==
    [errsNil |-> TRUE, errs |-> EmptyMap, reqs |-> 0, badStatusCode |-> 0,
     latency |-> NewHistogram(0)]

newBmStat(cfg) == [ZeroStat EXCEPT !.latency = NewHistogram(cfg.bmDuration)]

AddErr(bs, desc) ==
    LET m == IF bs.errsNil THEN EmptyMap ELSE bs.errs
    IN [bs EXCEPT !.errsNil = FALSE,
                  !.errs = [d \in DOMAIN m \cup {desc} |->
                              IF d = desc
                              THEN (IF d \in DOMAIN m THEN m[d] + 1 ELSE 1)
                              ELSE m[d]]]

IncrReq(bs) == [bs EXCEPT !.reqs = @ + 1]

IncrBadStatusCode(bs) == [bs EXCEPT !.badStatusCode = @ + 1]

\* mutant of MergeErrs: a description that only the other map has is not
\* inserted (the else branch of the loop body is missing)
MergeErrsNoInsert(mine, other) ==
    [d \in DOMAIN mine |->
        IF d \in DOMAIN other THEN other[d] + mine[d] ELSE mine[d]]

\* mutant of MergeErrs: a description found in both maps takes the other
\* map's count instead of the sum
MergeErrsOverwrite(mine, other) ==
    [d \in DOMAIN mine \cup DOMAIN other |->
        IF d \in DOMAIN other THEN other[d] ELSE mine[d]]

\* for desc, a := range other.errs { ... }
MergeErrs(mine, other) ==
    [d \in DOMAIN mine \cup DOMAIN other |->
        IF d \in DOMAIN other
        THEN (IF d \in DOMAIN mine THEN other[d] + mine[d] ELSE other[d])
        ELSE mine[d]]

\* benchmark.go: counts and error map only
MergeLatch(bs, other) ==
    LET c == [bs EXCEPT !.reqs = @ + other.reqs,
                        !.badStatusCode = @ + other.badStatusCode]
    IN IF other.errsNil THEN c
       ELSE [c EXCEPT !.errsNil = FALSE,
                      !.errs = MergeErrs(IF bs.errsNil THEN EmptyMap ELSE bs.errs,
                                         other.errs)]

\* mutant of Merge: bs.latency.Merge(other.latency) is left out
MergeWithoutLatency(bs, other) ==
    LET c == [bs EXCEPT !.reqs = @ + other.reqs,
                        !.badStatusCode = @ + other.badStatusCode]
    IN IF other.errsNil THEN c
       ELSE [c EXCEPT !.errsNil = FALSE,
                      !.errs = MergeErrs(IF bs.errsNil THEN EmptyMap ELSE bs.errs,
                                         other.errs)]

\* mutant of Merge: the error map is created before other.errs is examined,
\* so merging two stats without errors leaves an empty, non-nil map
MergeMakesErrsFirst(bs, other) ==
    LET c == [bs EXCEPT !.reqs = @ + other.reqs,
                        !.badStatusCode = @ + other.badStatusCode,
                        !.latency = HistogramMerge(@, other.latency)]
    IN [c EXCEPT !.errsNil = FALSE,
                 !.errs = MergeErrs(IF bs.errsNil THEN EmptyMap ELSE bs.errs,
                                    IF other.errsNil THEN EmptyMap ELSE other.errs)]

\* form.go: also the latency histograms
Merge(bs, other) ==
    LET c == [bs EXCEPT !.reqs = @ + other.reqs,
                        !.badStatusCode = @ + other.badStatusCode,
                        !.latency = HistogramMerge(@, other.latency)]
    IN IF other.errsNil THEN c
       ELSE [c EXCEPT !.errsNil = FALSE,
                      !.errs = MergeErrs(IF bs.errsNil THEN EmptyMap ELSE bs.errs,
                                         other.errs)]

\* mutant of aggregateStatFromReqCtx: the latency is recorded in the branch
\* of the attempts that got a response only
aggregateStatLatencyOnSuccess(stat, res) ==
    LET s1 == IncrReq(stat)
    IN IF res.err # NoErr THEN AddErr(s1, res.err)
       ELSE LET s2 == IF res.statusCode < 200 \/ res.statusCode >= 400
                      THEN IncrBadStatusCode(s1)
                      ELSE s1
            IN [s2 EXCEPT !.latency = RecordValues(@, res.time, 1)]

\* mutant of aggregateStatFromReqCtx: the status test is not in an else
\* branch, so a failed attempt (statusCode 0) also counts as a bad status
aggregateStatWithoutElse(stat, res) ==
    LET s1 == IncrReq(stat)
        s2 == IF res.err # NoErr THEN AddErr(s1, res.err) ELSE s1
        s3 == IF res.statusCode < 200 \/ res.statusCode >= 400
              THEN IncrBadStatusCode(s2)
              ELSE s2
    IN [s3 EXCEPT !.latency = RecordValues(@, res.time, 1)]

\* the stat part of aggregateStatFromReqCtx, form.go 436-447
aggregateStatFromReqCtx(stat, res) ==
    LET s1 == IncrReq(stat)
        s2 == IF res.err # NoErr THEN AddErr(s1, res.err)
              ELSE IF res.statusCode < 200 \/ res.statusCode >= 400
                   THEN IncrBadStatusCode(s1)
                   ELSE s1
    IN [s2 EXCEPT !.latency = RecordValues(@, res.time, 1)]

\* the stat part of aggregateStatFromReqCtx, benchmark.go 104-111
aggregateStatFromReqCtxLatch(stat, res) ==
    LET s1 == IncrReq(stat)
        s2 == IF res.err # NoErr THEN AddErr(s1, res.err) ELSE s1
    IN IF res.statusCode < 200 \/ res.statusCode >= 400
       THEN IncrBadStatusCode(s2)
       ELSE s2

AggregateRev(r, stat, res) ==
    IF r = "histogram" THEN aggregateStatFromReqCtx(stat, res)
    ELSE aggregateStatFromReqCtxLatch(stat, res)

MergeRev(r, bs, other) ==
    IF r = "histogram" THEN Merge(bs, other) ELSE MergeLatch(bs, other)

\* ------------------------------------------------- statistics specification
\* Three stats are fed outcomes one at a time (aggregateStatFromReqCtx); whole
\* is fed every outcome, in the order in which they are recorded.
ShardIds == {1, 2, 3}

NewStat(r, cfg) == IF r = "histogram" THEN newBmStat(cfg) ELSE ZeroStat

\* the run is not started: its variables keep these values
RunIdle ==
    /\ stats = <<>> /\ total = ZeroStat /\ coordPc = "idle" /\ wg = 0
    /\ cancelled = FALSE /\ sigC = 0 /\ sigPc = "idle"
    /\ mainPc = <<>> /\ branch = <<>> /\ timer = <<>> /\ done = <<>>
    /\ reqWg = <<>> /\ latch = <<>> /\ reqCtxCh = <<>>
    /\ slotPc = <<>> /\ slotCtx = <<>> /\ heap = <<>> /\ live = {}
    /\ reqCtxPool = {} /\ issued = <<>> /\ ctxConn = <<>>
    /\ oldReq = <<>> /\ opened = 0 /\ built = 0 /\ readBy = <<>>

\* the command-line stage is over (or not modelled): its variables keep
\* these values
CookieIdle == cookiePc = "idle" /\ jar = <<>> /\ file = <<>> /\ freshJar = <<>>

CliIdle == argsPc = "idle" /\ flags = <<>> /\ err = "nil" /\ CookieIdle

StatInit ==
    /\ rev \in Revisions
    /\ config \in [bmConn : {3}, bmReqPerConn : {1}, bmDuration : 1..MaxDuration]
    /\ shards = [i \in ShardIds |-> NewStat(rev, config)]
    /\ whole = NewStat(rev, config)
    /\ RunIdle
    /\ CliIdle

Record(i, o) ==
    /\ whole.reqs < MaxOutcomes
    /\ shards' = [shards EXCEPT ![i] = AggregateRev(rev, @, o)]
    /\ whole' = AggregateRev(rev, whole, o)
    /\ UNCHANGED <<cliVars, reqVars, config, rev>>
    /\ UNCHANGED runVars

StatNext == \E i \in ShardIds, o \in Outcomes : Record(i, o)

StatSpec == StatInit /\ [][StatNext]_vars

\* ----------------------------------------------------- checkArgs, quick.go
\* Durations are counted in units of 500ms; a string the code takes apart or
\* rewrites is a sequence of its characters or of its colon-separated parts.

\* connectTimeout: 1000 * time.Millisecond in newQuickConfig
DefaultConnectTimeout == 2

MethodGet == <<"G", "E", "T">>
MethodHead == <<"H", "E", "A", "D">>
MethodPost == <<"P", "O", "S", "T">>
MethodPut == <<"P", "U", "T">>
MethodPatch == <<"P", "A", "T", "C", "H">>
MethodDelete == <<"D", "E", "L", "E", "T", "E">>
MethodConnect == <<"C", "O", "N", "N", "E", "C", "T">>
MethodOptions == <<"O", "P", "T", "I", "O", "N", "S">>
MethodTrace == <<"T", "R", "A", "C", "E">>

defaultMethod == MethodGet

LowerLetters == <<"a", "b", "c", "d", "e", "f", "g", "h", "i", "j", "k", "l", "m",
                  "n", "o", "p", "q", "r", "s", "t", "u", "v", "w", "x", "y", "z">>
UpperLetters == <<"A", "B", "C", "D", "E", "F", "G", "H", "I", "J", "K", "L", "M",
                  "N", "O", "P", "Q", "R", "S", "T", "U", "V", "W", "X", "Y", "Z">>

\* strings.ToUpper
ToUpperChar(c) ==
    IF \E i \in DOMAIN LowerLetters : LowerLetters[i] = c
    THEN UpperLetters[CHOOSE i \in DOMAIN LowerLetters : LowerLetters[i] = c]
    ELSE c

ToUpper(str) == [i \in DOMAIN str |-> ToUpperChar(str[i])]

\* newQuickConfig (quick.go 97-109) and the zero values of the other fields
\* the flags set; url is the URL argument: "missing", "invalid" (no host or
\* a scheme other than https), "host" or "host:port"; ctHeader is the
\* Content-Type given with -H
DefaultConfig ==
    [url |-> "host", sni |-> <<>>,
     maxTime |-> 0, connectTimeout |-> DefaultConnectTimeout, idleTimeout |-> 0,
     data |-> FALSE, forms |-> FALSE, method |-> <<>>,
     headersOnly |-> FALSE, headersIncluded |-> FALSE, outFilename |-> "",
     cookie |-> "", loadCookie |-> "", dumpCookie |-> "",
     ctHeader |-> "", contentType |-> "application/json",
     insecure |-> FALSE, noRedirect |-> FALSE,
     bmDuration |-> 0, bmConn |-> 0, bmReqPerConn |-> 0, bmEnabled |-> FALSE]

\* a return from checkArgs: the configuration as it is left, and the error
Return(cfg, e) == [config |-> cfg, err |-> e]

\* quick.go 213-245: the URL argument and the SNI (uri.Host is the host, with
\* the port when the URL names one; net.SplitHostPort rejects a second colon);
\* the address of quick.go 246-252 is modelled with -resolve below
checkURL(c) ==
    IF c.url = "missing" THEN Return(c, "no URL specified")
    ELSE IF c.url = "invalid" THEN Return(c, "URL invalid")
    ELSE LET host == IF c.url = "host:port" THEN <<"host", "port">> ELSE <<"host">>
             c1 == IF c.sni = <<>> THEN [c EXCEPT !.sni = host] ELSE c
         IN IF Len(c1.sni) > 2 THEN Return(c1, "too many colons in address")
            ELSE IF Len(c1.sni) = 2 THEN Return([c1 EXCEPT !.sni = <<c1.sni[1]>>], "nil")
            ELSE Return(c1, "nil")

\* quick.go 254-282: the locals maxTime, connectTimeout and idleTimeout are
\* read before anything is lowered, and tested after
checkTimeouts(c) ==
    IF c.maxTime < 0 THEN Return(c, "-max-time should not be negative")
    ELSE LET c1 == IF c.maxTime # 0 /\ c.maxTime < c.connectTimeout
                   THEN [c EXCEPT !.connectTimeout = c.maxTime] ELSE c
             c2 == IF c.maxTime # 0 /\ c.maxTime < c.idleTimeout
                   THEN [c1 EXCEPT !.idleTimeout = c.maxTime] ELSE c1
         IN IF c.connectTimeout <= 0
            THEN Return(c2, "-connect-timeout should be positive")
            ELSE IF c.idleTimeout < 0
            THEN Return(c2, "-idle-timeout should not be negative")
            ELSE Return(c2, "nil")

\* mutant of checkMethod: -I is looked at before -d and -F
checkMethodHeadFirst(c) ==
    IF c.data /\ c.forms THEN Return(c, "-d can't be used with -F")
    ELSE IF c.method = <<>>
    THEN Return([c EXCEPT !.method = IF c.headersOnly THEN MethodHead
                                     ELSE IF c.data \/ c.forms THEN MethodPost
                                     ELSE defaultMethod], "nil")
    ELSE LET c1 == [c EXCEPT !.method = ToUpper(c.method)]
         IN IF c1.method \in {MethodGet, MethodHead, MethodDelete,
                              MethodPost, MethodPatch, MethodPut}
            THEN Return(c1, "nil")
            ELSE IF c1.method \in {MethodConnect, MethodOptions, MethodTrace}
            THEN Return(c1, "method is unsupported")
            ELSE Return(c1, "unknown method")

\* quick.go 284-307
checkMethod(c) ==
    IF c.data /\ c.forms THEN Return(c, "-d can't be used with -F")
    ELSE IF c.method = <<>>
    THEN Return([c EXCEPT !.method = IF c.data \/ c.forms THEN MethodPost
                                     ELSE IF c.headersOnly THEN MethodHead
                                     ELSE defaultMethod], "nil")
    ELSE LET c1 == [c EXCEPT !.method = ToUpper(c.method)]
         IN IF c1.method \in {MethodGet, MethodHead, MethodDelete,
                              MethodPost, MethodPatch, MethodPut}
            THEN Return(c1, "nil")
            ELSE IF c1.method \in {MethodConnect, MethodOptions, MethodTrace}
            THEN Return(c1, "method is unsupported")
            ELSE Return(c1, "unknown method")

\* quick.go 309-317
checkCookieAndContentType(c) ==
    IF c.cookie # "" /\ c.loadCookie # ""
    THEN Return(c, "-cookie can't be used with -load-cookie")
    ELSE IF c.ctHeader # ""
    THEN Return([c EXCEPT !.ctHeader = "", !.contentType = c.ctHeader], "nil")
    ELSE Return(c, "nil")

\* mutant of checkBenchmark: -bm-req-per-conn is not looked at
checkBenchmarkTwoOptions(c) ==
    LET c1 == IF c.bmConn > 0 /\ c.bmDuration > 0
              THEN [c EXCEPT !.bmEnabled = TRUE] ELSE c
    IN IF ~c1.bmEnabled THEN Return(c1, "nil")
       ELSE IF c1.dumpCookie # ""
       THEN Return(c1, "unsupport option in benchmark mode")
       ELSE IF c1.outFilename # "" \/ c1.headersIncluded \/ c1.headersOnly
       THEN Return(c1, "output customization is not allowed in benchmark mode")
       ELSE Return([c1 EXCEPT !.noRedirect = TRUE, !.insecure = TRUE,
                              !.maxTime = IF @ = 0 THEN c1.bmDuration ELSE @],
                   "nil")

\* mutant of checkBenchmark: -I is not among the options refused
checkBenchmarkAllowsHeadersOnly(c) ==
    LET c1 == IF c.bmConn > 0 /\ c.bmDuration > 0 /\ c.bmReqPerConn > 0
              THEN [c EXCEPT !.bmEnabled = TRUE] ELSE c
    IN IF ~c1.bmEnabled THEN Return(c1, "nil")
       ELSE IF c1.dumpCookie # ""
       THEN Return(c1, "unsupport option in benchmark mode")
       ELSE IF c1.outFilename # "" \/ c1.headersIncluded
       THEN Return(c1, "output customization is not allowed in benchmark mode")
       ELSE Return([c1 EXCEPT !.noRedirect = TRUE, !.insecure = TRUE,
                              !.maxTime = IF @ = 0 THEN c1.bmDuration ELSE @],
                   "nil")

\* quick.go 319-336
checkBenchmark(c) ==
    LET c1 == IF c.bmConn > 0 /\ c.bmDuration > 0 /\ c.bmReqPerConn > 0
              THEN [c EXCEPT !.bmEnabled = TRUE] ELSE c
    IN IF ~c1.bmEnabled THEN Return(c1, "nil")
       ELSE IF c1.dumpCookie # ""
       THEN Return(c1, "unsupport option in benchmark mode")
       ELSE IF c1.outFilename # "" \/ c1.headersIncluded \/ c1.headersOnly
       THEN Return(c1, "output customization is not allowed in benchmark mode")
       ELSE Return([c1 EXCEPT !.noRedirect = TRUE, !.insecure = TRUE,
                              !.maxTime = IF @ = 0 THEN c1.bmDuration ELSE @],
                   "nil")

\* checkArgs, quick.go 200-339: the first error returns
checkArgs(c) ==
    LET r1 == checkURL(c) IN
    IF r1.err # "nil" THEN r1 ELSE
    LET r2 == checkTimeouts(r1.config) IN
    IF r2.err # "nil" THEN r2 ELSE
    LET r3 == checkMethod(r2.config) IN
    IF r3.err # "nil" THEN r3 ELSE
    LET r4 == checkCookieAndContentType(r3.config) IN
    IF r4.err # "nil" THEN r4 ELSE
    checkBenchmark(r4.config)

\* ---- the command lines explored: each family varies some options and
\* leaves the others at their defaults
Timeouts == (0 - 1)..MaxTimeout
BmCounts == (0 - 1)..2
BmDurations == (0 - 1)..MaxDuration

\* -max-time, -connect-timeout, -idle-timeout and the benchmark options
TimeoutArgs ==
    {[DefaultConfig EXCEPT !.maxTime = m, !.connectTimeout = c, !.idleTimeout = i,
                           !.bmDuration = d, !.bmConn = n, !.bmReqPerConn = n] :
        m \in Timeouts, c \in Timeouts, i \in Timeouts,
        d \in 0..MaxDuration, n \in {0, 1}}

\* the benchmark options with -o, -i, -I, -dump-cookie, -k and -no-redirect
BenchmarkArgs ==
    {[DefaultConfig EXCEPT !.bmDuration = d, !.bmConn = n, !.bmReqPerConn = r,
                           !.headersOnly = o[1], !.headersIncluded = o[2],
                           !.outFilename = IF o[3] THEN "out.txt" ELSE "",
                           !.dumpCookie = IF o[4] THEN "x.txt" ELSE "",
                           !.insecure = o[5], !.noRedirect = o[6]] :
        d \in BmDurations, n \in BmCounts, r \in BmCounts,
        o \in [1..6 -> BOOLEAN]}

\* what -X is given
UserMethods ==
    {<<>>, <<"g", "e", "t">>, <<"G", "e", "t">>, MethodGet, MethodHead,
     <<"d", "e", "l", "e", "t", "e">>, MethodPost, <<"p", "a", "t", "c", "h">>,
     <<"p", "u", "T">>, <<"c", "o", "n", "n", "e", "c", "t">>, MethodOptions,
     <<"t", "r", "a", "c", "e">>, <<"x", "x", "x">>, <<"G", "E", "T", "S">>,
     <<"g", "e", "t", " ">>}

\* -X, -d, -F and -I
MethodArgs ==
    {[DefaultConfig EXCEPT !.method = m, !.data = o[1], !.forms = o[2],
                           !.headersOnly = o[3]] :
        m \in UserMethods, o \in [1..3 -> BOOLEAN]}

\* the URL, -sni, -cookie, -load-cookie and -H Content-Type
OtherArgs ==
    {[DefaultConfig EXCEPT !.url = u, !.sni = n,
                           !.cookie = IF o[1] THEN "xx=yy" ELSE "",
                           !.loadCookie = IF o[2] THEN "x.txt" ELSE "",
                           !.ctHeader = IF o[3] THEN "text/xml" ELSE ""] :
        u \in {"missing", "invalid", "host", "host:port"},
        n \in {<<>>, <<"sni">>, <<"sni", "443">>, <<"sni", "1", "2">>},
        o \in [1..3 -> BOOLEAN]}

ArgConfigs == TimeoutArgs \cup BenchmarkArgs \cup MethodArgs \cup OtherArgs

ArgsInit ==
    /\ config \in ArgConfigs
    /\ flags = config
    /\ argsPc = "parsed"
    /\ err = "nil"
    /\ CookieIdle
    /\ rev = "histogram"
    /\ RunIdle
    /\ shards = <<>> /\ whole = ZeroStat

\* main calls checkArgs (quick.go 652)
CheckArgs ==
    /\ argsPc = "parsed"
    /\ config' = checkArgs(config).config
    /\ err' = checkArgs(config).err
    /\ argsPc' = "checked"
    /\ UNCHANGED <<rev, flags, runVars, statVars, cookieVars>>

\* quick.go 653-655: fatal(err.Error())
ArgsFatal ==
    /\ argsPc = "checked"
    /\ err # "nil"
    /\ argsPc' = "exited"
    /\ UNCHANGED <<config, rev, flags, err, runVars, statVars, cookieVars>>

\* run, quick.go 645-648: the mode is chosen by config.bmEnabled
RunMode ==
    /\ argsPc = "checked"
    /\ err = "nil"
    /\ argsPc' = (IF config.bmEnabled THEN "benchmark" ELSE "normal")
    /\ UNCHANGED <<config, rev, flags, err, runVars, statVars, cookieVars>>

ArgsNext == CheckArgs \/ ArgsFatal \/ RunMode

ArgsSpec == ArgsInit /\ [][ArgsNext]_vars

\* ------------------------------------------- -resolve, resolver.go
\* A -resolve value and an address are the sequences of their
\* colon-separated parts: "test.com:443:127.0.0.1" is
\* <<"test.com", "443", "127.0.0.1">>, "test.com:443" is <<"test.com", "443">>.

\* strconv.Atoi on the port texts explored; any other text is not a number
PortValue ==
    [p \in {"0", "443", "0443", "4443", "8443", "65536"} |->
        CASE p = "0" -> 0
          [] p = "443" -> 443
          [] p = "0443" -> 443
          [] p = "4443" -> 4443
          [] p = "8443" -> 8443
          [] p = "65536" -> 65536]

\* mutant of resolveValueSet: the new pair is appended, so that the loop of
\* resolveAddr finds the earliest entry first
resolveValueSetAppends(addrs, value) ==
    IF Len(value) < 3 THEN Return(addrs, "invalid resolve")
    ELSE IF value[2] \notin DOMAIN PortValue
            \/ ~(0 < PortValue[value[2]] /\ PortValue[value[2]] < 65536)
    THEN Return(addrs, "invalid resolve")
    ELSE IF Len(value) > 4 THEN Return(addrs, "invalid resolve")
    ELSE LET src == <<value[1], value[2]>>
             dst == IF Len(value) = 3 THEN <<value[3], value[2]>>
                    ELSE <<value[3], value[4]>>
         IN Return(Append(addrs, <<src, dst>>), "nil")

\* resolveValue.Set: strings.SplitN(value, ":", 3) gives host, port and the
\* rest; the rest is the destination, with the port added when it has none
\* (net.SplitHostPort rejects a rest with two colons); prepended
resolveValueSet(addrs, value) ==
    IF Len(value) < 3 THEN Return(addrs, "invalid resolve")
    ELSE IF value[2] \notin DOMAIN PortValue
            \/ ~(0 < PortValue[value[2]] /\ PortValue[value[2]] < 65536)
    THEN Return(addrs, "invalid resolve")
    ELSE IF Len(value) > 4 THEN Return(addrs, "invalid resolve")
    ELSE LET src == <<value[1], value[2]>>
             dst == IF Len(value) = 3 THEN <<value[3], value[2]>>
                    ELSE <<value[3], value[4]>>
         IN Return(<<(<<src, dst>>)>> \o addrs, "nil")

\* resolveAddr: the first pair of the slice whose source is host
resolveAddr(host, addrs) ==
    IF \E i \in DOMAIN addrs : addrs[i][1] = host
    THEN LET i == CHOOSE k \in DOMAIN addrs :
                    /\ addrs[k][1] = host
                    /\ \A j \in DOMAIN addrs : addrs[j][1] = host => k <= j
         IN addrs[i][2]
    ELSE host

\* the -resolve values explored
ResolveValues ==
    {<<"test.com", "443", "127.0.0.1">>,
     <<"test.com", "443", "127.0.0.2">>,
     <<"test.com", "8443", "127.0.0.1">>,
     <<"test.com", "8443", "127.0.0.1", "4443">>,
     <<"www.test.com", "443", "127.0.0.3">>,
     <<"Test.com", "443", "127.0.0.4">>,
     <<"test.com", "0443", "127.0.0.5">>,
     <<"127.0.0.1", "www.test.com">>,
     <<"127.0.0.1", "0", "www.test.com">>,
     <<"127.0.0.1", "xxx", "www.test.com">>,
     <<"test.com", "443", "127.0.0.1", "1", "2">>}

\* uri.Host of the URL argument, ":443" added when it names no port
UriHosts ==
    {<<"test.com", "443">>, <<"test.com", "8443">>, <<"www.test.com", "443">>}

\* flag.Parse is reading the options; no -resolve has been read
ResolveInit ==
    /\ config = [revolver |-> <<>>, address |-> <<>>]
    /\ flags = [resolve |-> <<>>, host |-> <<>>]
    /\ argsPc = "parsing"
    /\ err = "nil"
    /\ CookieIdle
    /\ rev = "histogram"
    /\ RunIdle
    /\ shards = <<>> /\ whole = ZeroStat

\* flag.Parse reads a -resolve option and calls Set; on an error the flag
\* package prints it and exits
ReadResolve(value) ==
    /\ argsPc = "parsing"
    /\ Len(flags.resolve) < MaxResolve
    /\ LET r == resolveValueSet(config.revolver, value)
       IN /\ config' = [config EXCEPT !.revolver = r.config]
          /\ err' = r.err
          /\ argsPc' = (IF r.err = "nil" THEN "parsing" ELSE "exited")
    /\ flags' = [flags EXCEPT !.resolve = Append(@, value)]
    /\ UNCHANGED <<rev, runVars, statVars, cookieVars>>

\* checkArgs, quick.go 250-252: uri.Host = resolveAddr(uri.Host, config)
ResolveURL(host) ==
    /\ argsPc = "parsing"
    /\ config' = [config EXCEPT !.address = resolveAddr(host, config.revolver)]
    /\ flags' = [flags EXCEPT !.host = host]
    /\ argsPc' = "checked"
    /\ UNCHANGED <<rev, err, runVars, statVars, cookieVars>>

ResolveNext ==
    \/ \E value \in ResolveValues : ReadResolve(value)
    \/ \E host \in UriHosts : ResolveURL(host)

ResolveSpec == ResolveInit /\ [][ResolveNext]_vars

\* --------------------------------- -F, formValue.Set, form.go 54-152
\* A string is a sequence of symbols. A symbol is one character, or a word of
\* letters ("type", "filename") that stands for its characters: the scanner
\* treats every letter alike.
parsingKey == 0
parsingVal == 1
parsingQuotedVal == 2
parsingSep == 3

\* Go's value[a:b], with indices that count from 0
Slice(value, a, b) == SubSeq(value, a + 1, b)

\* strings.NewReplacer("\\\\", "\\", "\\\"", `"`).Replace(s), form.go 176-181:
\* from left to right, a backslash before a backslash or a quote is dropped
RECURSIVE unescapeQuotes(_)
unescapeQuotes(s) ==
    IF s = <<>> THEN <<>>
    ELSE IF Len(s) >= 2 /\ s[1] = "\\" /\ s[2] \in {"\\", "\""}
    THEN <<s[2]>> \o unescapeQuotes(SubSeq(s, 3, Len(s)))
    ELSE <<s[1]>> \o unescapeQuotes(Tail(s))

\* form.go 183-189 (the caller's flag is reset by the scanner below)
unescapeIfNeeded(s, need) == IF need THEN unescapeQuotes(s) ELSE s

\* the scanner before the first character, form.go 62-65; panic records an
\* index out of range
ScanStart ==
    [state |-> parsingKey, start |-> 0, needUnescape |-> FALSE,
     tokens |-> <<>>, panic |-> FALSE]

\* tokens = append(tokens, piece) with piece = value[start:i], unescaped if
\* asked; the slice expression panics when start > i
PushPiece(value, i, sc, unescape) ==
    IF sc.start > i THEN [sc EXCEPT !.panic = TRUE]
    ELSE LET piece == Slice(value, sc.start, i)
         IN [sc EXCEPT !.tokens = Append(@, IF unescape
                                            THEN unescapeIfNeeded(piece, sc.needUnescape)
                                            ELSE piece),
                       !.needUnescape = IF unescape THEN FALSE ELSE @]

\* form.go 72-110: the character at index i (from 0); value[i-1] panics
\* when i = 0
scanRune(value, i, sc) ==
    LET r == value[i + 1]
    IN  IF sc.panic THEN sc
        ELSE IF r = "="
        THEN IF sc.state = parsingKey
             THEN [PushPiece(value, i, sc, FALSE) EXCEPT
                       !.start = i + 1, !.state = parsingVal]
             ELSE sc
        ELSE IF r = "\""
        THEN IF sc.state = parsingVal
             THEN IF i = 0 THEN [sc EXCEPT !.panic = TRUE]
                  ELSE IF value[i] = "="
                  THEN [sc EXCEPT !.start = i + 1, !.state = parsingQuotedVal]
                  ELSE IF value[i] = "\""
                  THEN [sc EXCEPT !.needUnescape = TRUE]
                  ELSE sc
             ELSE IF sc.state = parsingQuotedVal
             THEN IF i = 0 THEN [sc EXCEPT !.panic = TRUE]
                  ELSE IF value[i] # "\\"
                  THEN [PushPiece(value, i, sc, TRUE) EXCEPT !.state = parsingSep]
                  ELSE [sc EXCEPT !.needUnescape = TRUE]
             ELSE sc
        ELSE IF r = ";"
        THEN IF sc.state = parsingVal
             THEN [PushPiece(value, i, sc, TRUE) EXCEPT !.state = parsingSep]
             ELSE sc
        ELSE IF r # " "
        THEN IF sc.state = parsingSep
             THEN [sc EXCEPT !.start = i, !.state = parsingKey]
             ELSE sc
        ELSE sc

\* form.go 71-111: for i, r := range value
RECURSIVE scanFrom(_, _, _)
scanFrom(value, i, sc) ==
    IF i >= Len(value) THEN sc
    ELSE scanFrom(value, i + 1, scanRune(value, i, sc))

\* form.go 66-69: a ';' is added to a value that does not end with one
Terminated(raw) == IF raw[Len(raw)] # ";" THEN Append(raw, ";") ELSE raw

\* the scanner after the last character of a non-empty raw
Scan(raw) == scanFrom(Terminated(raw), 0, ScanStart)

\* &form{}, form.go 118
NewForm ==
    [name |-> <<>>, data |-> <<>>, filename |-> <<>>, contentType |-> <<>>,
     fromFile |-> FALSE]

\* form.go 119-135: for i := 0; i < size; i += 2, reading tokens[i] and
\* tokens[i+1]; tokens[i+1] panics when i + 1 = size
RECURSIVE fillForm(_, _, _)
fillForm(tokens, i, f) ==
    IF i >= Len(tokens) THEN [form |-> f, panic |-> FALSE]
    ELSE IF i + 1 >= Len(tokens) THEN [form |-> f, panic |-> TRUE]
    ELSE LET key == tokens[i + 1]
             value == tokens[i + 2]
         IN  IF key = <<"filename">>
             THEN fillForm(tokens, i + 2, [f EXCEPT !.filename = value])
             ELSE IF key = <<"type">>
             THEN fillForm(tokens, i + 2, [f EXCEPT !.contentType = value])
             ELSE IF f.name = <<>>
             THEN fillForm(tokens, i + 2, [f EXCEPT !.name = key, !.data = value])
             ELSE fillForm(tokens, i + 2, f)

\* filepath.Base: the last element of the path, trailing slashes removed
RECURSIVE Base(_)
Base(path) ==
    IF path = <<>> THEN <<".">>
    ELSE IF path[Len(path)] = "/"
    THEN IF Len(path) = 1 THEN <<"/">> ELSE Base(SubSeq(path, 1, Len(path) - 1))
    ELSE IF \E k \in DOMAIN path : path[k] = "/"
    THEN LET k == CHOOSE j \in DOMAIN path :
                     /\ path[j] = "/"
                     /\ \A l \in DOMAIN path : path[l] = "/" => l <= j
         IN SubSeq(path, k + 1, Len(path))
    ELSE path

\* form.go 139-148: data that begins with '@' names a file
fromFileForm(f) ==
    LET data == Tail(f.data)
    IN [f EXCEPT !.fromFile = TRUE, !.data = data,
                 !.filename = IF f.filename = <<>> THEN Base(data) ELSE @]

\* what a run-time panic (index out of range) leaves
Panic == "panic"

\* formValue.Set, form.go 61-152; forms is fv.forms
formValueSet(forms, raw) ==
    IF raw = <<>> THEN Return(forms, Panic)       \* value[len(value)-1], line 67
    ELSE LET sc == Scan(raw)
         IN  IF sc.panic THEN Return(forms, Panic)
             ELSE IF Len(sc.tokens) < 2 THEN Return(forms, "invalid form")
             ELSE LET r == fillForm(sc.tokens, 0, NewForm)
                      f == r.form
                  IN  IF r.panic THEN Return(forms, Panic)
                      ELSE IF f.name = <<>> THEN Return(forms, "invalid form")
                      ELSE IF f.data # <<>> /\ f.data[1] = "@"
                      THEN IF Len(f.data) = 1 THEN Return(forms, "invalid form")
                           ELSE Return(Append(forms, fromFileForm(f)), "nil")
                      ELSE Return(Append(forms, f), "nil")

\* the symbols of the -F values explored
FormSymbols == {"a", "type", "filename", "=", "\"", ";", " ", "\\", "@", "/"}

\* the -F values explored: every string of at most MaxFormLen symbols, the
\* empty string included (-F "")
FormArgs == UNION {[1..n -> FormSymbols] : n \in 0..MaxFormLen}

\* flag.Parse is reading the options: no -F has been read, or -F a=@a has
FormInit ==
    /\ config \in {[forms |-> <<>>],
                   [forms |-> formValueSet(<<>>, <<"a", "=", "@", "a">>).config]}
    /\ flags = [form |-> <<>>]
    /\ argsPc = "parsing"
    /\ err = "nil"
    /\ CookieIdle
    /\ rev = "histogram"
    /\ RunIdle
    /\ shards = <<>> /\ whole = ZeroStat

\* flag.Parse reads a -F option and calls Set; on an error the flag package
\* prints it and exits; a panic ends the process
ReadForm(raw) ==
    /\ argsPc = "parsing"
    /\ Len(flags.form) < MaxForms
    /\ LET r == formValueSet(config.forms, raw)
       IN /\ config' = [config EXCEPT !.forms = r.config]
          /\ err' = r.err
          /\ argsPc' = (IF r.err = "nil" THEN "parsing"
                        ELSE IF r.err = Panic THEN "panic" ELSE "exited")
    /\ flags' = [flags EXCEPT !.form = Append(@, raw)]
    /\ UNCHANGED <<rev, runVars, statVars, cookieVars>>

\* the values flag.Parse may still read
FormArgsLeft ==
    IF argsPc = "parsing" /\ Len(flags.form) < MaxForms THEN FormArgs ELSE {}

FormNext == \E raw \in FormArgsLeft : ReadForm(raw)

FormSpec == FormInit /\ [][FormNext]_vars

\* ------------------------------------- cookie files, cookie_manager.go
\* A text is a sequence of tokens: words (runs of characters that are not
\* white space) and the white-space characters between them.  A cookie value
\* is the sequence of its words: "" is <<>>, "gd" is <<"gd">>, "a b" is
\* <<"a", "b">>.
Word(v) == [k |-> "word", v |-> v]
TAB == [k |-> "tab", v |-> ""]
SP == [k |-> "space", v |-> ""]
NL == [k |-> "newline", v |-> ""]

\* the words of a value with single spaces between them
RECURSIVE Spaced(_)
Spaced(words) ==
    IF words = <<>> THEN <<>>
    ELSE IF Len(words) = 1 THEN <<Word(words[1])>>
    ELSE <<Word(words[1]), SP>> \o Spaced(Tail(words))

\* strconv.FormatInt(ck.Expires.Unix(), 10) on the expirations explored, and
\* strconv.Atoi on their texts
ExpiresText ==
    [n \in {1594549396, 1594549399} |->
        IF n = 1594549396 THEN "1594549396" ELSE "1594549399"]

AtoiExpires(text) ==
    IF \E n \in DOMAIN ExpiresText : ExpiresText[n] = text
    THEN [ok |-> TRUE, n |-> CHOOSE n \in DOMAIN ExpiresText : ExpiresText[n] = text]
    ELSE [ok |-> FALSE, n |-> 0]

\* the line dump writes for one cookie, cookie_manager.go 119-140
dumpLine(ck, trailingWS, last) ==
    <<Word(ck.Domain), TAB, Word("TRUE"), TAB, Word(ck.Path), TAB,
      Word(IF ck.Secure THEN "TRUE" ELSE "FALSE"), TAB,
      Word(ExpiresText[ck.Expires]), TAB, Word(ck.Name)>>
    \o (IF ck.Value # <<>> \/ trailingWS THEN <<TAB>> \o Spaced(ck.Value) ELSE <<>>)
    \o (IF trailingWS \/ ~last THEN <<NL>> ELSE <<>>)

\* cookieManager.dump: one line for every cookie of jar.DumpCookies()
RECURSIVE dumpFrom(_, _, _)
dumpFrom(cks, i, trailingWS) ==
    IF i > Len(cks) THEN <<>>
    ELSE dumpLine(cks[i], trailingWS, i = Len(cks)) \o dumpFrom(cks, i + 1, trailingWS)

dump(cks, trailingWS) == dumpFrom(cks, 1, trailingWS)

\* cookieManager.String
String(cks) == dump(cks, FALSE)

\* bufio.Scanner with ScanLines: the lines of a text, without their newlines
RECURSIVE ScanLines(_, _)
ScanLines(text, cur) ==
    IF text = <<>> THEN (IF cur = <<>> THEN <<>> ELSE <<cur>>)
    ELSE IF Head(text) = NL THEN <<cur>> \o ScanLines(Tail(text), <<>>)
    ELSE ScanLines(Tail(text), Append(cur, Head(text)))

IsWord(t) == t.k = "word"

\* strings.Fields: the words of a line
Fields(line) ==
    LET words == SelectSeq(line, IsWord)
    IN [i \in DOMAIN words |-> words[i].v]

\* Jar.SetCookies for one cookie: a cookie of the same domain, path and name
\* is replaced where it is, a new one is added at the end
SetCookie(cks, ck) ==
    IF \E i \in DOMAIN cks :
         cks[i].Domain = ck.Domain /\ cks[i].Path = ck.Path /\ cks[i].Name = ck.Name
    THEN [i \in DOMAIN cks |->
            IF cks[i].Domain = ck.Domain /\ cks[i].Path = ck.Path
               /\ cks[i].Name = ck.Name
            THEN ck ELSE cks[i]]
    ELSE Append(cks, ck)

\* the cookie that one line of the file describes, cookie_manager.go 157-203
\* and 228-237 (the domains explored are host names, which url.Parse accepts)
parseLine(line) ==
    LET fields == Fields(line)
    IN IF Len(fields) < 6 THEN [err |-> "not enough fields"]
       ELSE IF fields[4] \notin {"TRUE", "FALSE"} THEN [err |-> "unrecognized secure"]
       ELSE IF ~AtoiExpires(fields[5]).ok THEN [err |-> "strconv.Atoi"]
       ELSE [err |-> "nil",
             ck |-> [Domain |-> fields[1], Path |-> fields[3],
                     Secure |-> (fields[4] = "TRUE"),
                     Expires |-> AtoiExpires(fields[5]).n,
                     Name |-> fields[6],
                     Value |-> IF Len(fields) > 6 THEN <<fields[7]>> ELSE <<>>]]

\* cookieManager.load: every line that is neither empty nor a comment gives a
\* cookie; the cookies of consecutive lines with the same domain and path are
\* set together, in the order of the lines
RECURSIVE loadLines(_, _)
loadLines(lines, cks) ==
    IF lines = <<>> THEN Return(cks, "nil")
    ELSE IF Head(lines) = <<>> THEN loadLines(Tail(lines), cks)
    ELSE LET r == parseLine(Head(lines))
         IN IF r.err # "nil" THEN Return(cks, r.err)
            ELSE loadLines(Tail(lines), SetCookie(cks, r.ck))

load(cks, text) == loadLines(ScanLines(text, <<>>), cks)

\* the cookies a server or -cookie can set
CookieValues == {<<>>, <<"gd">>, <<"a", "b">>}

Cookies ==
    [Domain : {"taobao.com", "www.taobao.com"}, Path : {"/", "/xxx"},
     Secure : BOOLEAN, Expires : DOMAIN ExpiresText, Name : {"id", "sid"},
     Value : CookieValues]

\* a new cookie manager, no cookie set
CookieInit ==
    /\ cookiePc = "filling"
    /\ jar = <<>> /\ file = <<>> /\ freshJar = <<>>
    /\ argsPc = "idle" /\ flags = <<>> /\ err = "nil"
    /\ config \in [dumpCookie : {"x.txt"}]
    /\ rev = "histogram"
    /\ RunIdle
    /\ shards = <<>> /\ whole = ZeroStat

\* a response (or -cookie) sets a cookie in the jar
SetCookies(ck) ==
    /\ cookiePc = "filling"
    /\ Len(jar) < MaxCookies
    /\ jar' = SetCookie(jar, ck)
    /\ UNCHANGED <<config, rev, argsPc, flags, err, cookiePc, file, freshJar,
                   runVars, statVars>>

\* cookieManager.Dump, cookie_manager.go 50-58
Dump ==
    /\ cookiePc = "filling"
    /\ file' = dump(jar, TRUE)
    /\ cookiePc' = "dumped"
    /\ UNCHANGED <<config, rev, argsPc, flags, err, jar, freshJar,
                   runVars, statVars>>

\* cookieManager.Load on a fresh cookie manager, cookie_manager.go 60-68
Load ==
    /\ cookiePc = "dumped"
    /\ freshJar' = load(<<>>, file).config
    /\ err' = load(<<>>, file).err
    /\ cookiePc' = "loaded"
    /\ UNCHANGED <<config, rev, argsPc, flags, jar, file, runVars, statVars>>

CookieNext == (\E ck \in Cookies : SetCookies(ck)) \/ Dump \/ Load

CookieSpec == CookieInit /\ [][CookieNext]_vars

\* ------------------------------------------------------ the benchmark run
Workers == 1..config.bmConn

\* histogram revision: bmReqPerConn goroutines that loop (form.go 465-509);
\* latch revision: one goroutine per attempt (benchmark.go 127-153)
SlotIds == IF rev = "histogram" THEN 1..config.bmReqPerConn ELSE 1..MaxAttempts

\* cap of reqCtxCh: make(chan *reqCtx, config.bmReqPerConn*2)
QueueCap == config.bmReqPerConn * 2

\* addresses of reqCtx / reqResult objects; 0 is the nil pointer
Addrs == 1..(3 * MaxReqPerConn + MaxAttempts)

NewAddr == CHOOSE a \in Addrs \ live : \A b \in Addrs \ live : a <= b

\* reqCtxPool.Get(): an object of the pool, or New() when the pool has none.
\* Every object in the pool has been zeroed by aggregateStatFromReqCtx, so
\* which of them Get returns makes no difference: the least address is taken.
PoolGet ==
    IF reqCtxPool = {} THEN NewAddr
    ELSE CHOOSE a \in reqCtxPool : \A b \in reqCtxPool : a <= b

InFlight(w) == {s \in SlotIds : slotPc[w][s] = "do"}

RECURSIVE SumTo(_, _)
SumTo(f, n) == IF n = 0 THEN 0 ELSE f[n] + SumTo(f, n - 1)

\* requests issued so far on all connections; the exploration stops issuing
\* requests at MaxAttempts
TotalIssued == SumTo(issued, config.bmConn)

Spawned(w) == Cardinality({s \in SlotIds : slotPc[w][s] # "idle"})
TotalSpawned == SumTo([w \in Workers |-> Spawned(w)], config.bmConn)

\* the benchmark configurations explored: one connection with up to
\* MaxReqPerConn slots, or two connections with one slot each
BmConfigs ==
    {c \in [bmConn : {1, 2}, bmReqPerConn : 1..MaxReqPerConn,
            bmDuration : {MaxDuration},
            body : {"none"}, contentType : {"application/json"}] :
        c.bmConn = 1 \/ c.bmReqPerConn = 1}

\* the request body given on the command line: "none"; "data": -d with
\* literal sources; "file": -d @f with one file whose extension has a MIME
\* type; "forms": -F
Bodies == {"none", "data", "file", "forms"}

\* the content type Open returns (quick.go 465-469): dataValue.Open returns
\* its argument, or the file's MIME type; formValue.Open returns
\* multipartW.FormDataContentType(), whose boundary is drawn at random
OpenTypes(cfg) ==
    CASE cfg.body = "data" -> {cfg.contentType}
      [] cfg.body = "file" -> {"text/plain"}
      [] cfg.body = "forms" -> {"multipart/form-data; boundary=1",
                                "multipart/form-data; boundary=2"}
      [] OTHER -> {cfg.contentType}

\* what createReq does to the configuration, quick.go 462-474
createReq(cfg, ct) ==
    IF cfg.body # "none" THEN [cfg EXCEPT !.contentType = ct] ELSE cfg

\* ---- the request of an attempt, quick.go 459-506
\* A *http.Request is modelled by what the attempts can share: hdr numbers the
\* http.NewRequest call that made its URL and header, body is the body stream
\* it holds (0: a nil body). req.WithContext (quick.go 499-503) returns a
\* shallow copy, which has the header and the body of the request copied.
NilReq == [hdr |-> 0, body |-> 0]

\* quick.go 461-474: the body createReq opens, nil when neither -d nor -F is
\* given. dataValue.Open makes new readers and formValue.Open a new pipe on
\* every call: the body returned is the (nOpened + 1)th stream.
OpenBody(cfg, nOpened) == IF cfg.body # "none" THEN nOpened + 1 ELSE 0

\* mutant of RequestFor: the condition is oldReq == nil alone, so a context
\* that has a request keeps it, body and all
RequestForReusesOld(old, body, nBuilt) ==
    IF old = NilReq THEN [hdr |-> nBuilt + 1, body |-> body] ELSE old

\* quick.go 476-496: http.NewRequest when there is no old request or a body
\* has been opened, the old request otherwise
RequestFor(old, body, nBuilt) ==
    IF old = NilReq \/ body # 0 THEN [hdr |-> nBuilt + 1, body |-> body] ELSE old

\* form.go 470-482: req := createReq(ctx.oldReq); ctx.oldReq = req;
\* hclient.Do(req), which reads the body of req. a is the address of ctx.
IssueRequest(a) ==
    LET body == OpenBody(config, opened)
        req == RequestFor(oldReq[a], body, built)
        bodies == IF body # 0 THEN Append(readBy, 0) ELSE readBy
    IN  /\ opened' = Len(bodies)
        /\ built' = (IF req.hdr > built THEN built + 1 ELSE built)
        /\ oldReq' = [oldReq EXCEPT ![a] = req]
        /\ readBy' = (IF req.body # 0 THEN [bodies EXCEPT ![req.body] = @ + 1]
                      ELSE bodies)

\* benchmark configurations with a request body
BodyConfigs ==
    [bmConn : {1}, bmReqPerConn : 1..MaxReqPerConn, bmDuration : {MaxDuration},
     body : Bodies \ {"none"},
     contentType : {"application/json", "application/x-www-form-urlencoded"}]

\* runInBenchmarkMode has started the workers, nothing else has run
RunStart ==
    /\ stats = [w \in Workers |-> NewStat(rev, config)]
    /\ total = ZeroStat
    /\ coordPc = "wait"
    /\ wg = config.bmConn
    /\ cancelled = FALSE /\ sigC = 0 /\ sigPc = "recv"
    /\ mainPc = [w \in Workers |-> "loop"]
    /\ branch = [w \in Workers |-> "none"]
    /\ timer = [w \in Workers |-> "armed"]
    /\ done = [w \in Workers |-> FALSE]
    /\ reqWg = [w \in Workers |-> IF rev = "histogram" THEN config.bmReqPerConn ELSE 0]
    /\ latch = [w \in Workers |-> 0]
    /\ reqCtxCh = [w \in Workers |-> <<>>]
    /\ slotPc = [w \in Workers |->
                   [s \in SlotIds |-> IF rev = "histogram" THEN "start" ELSE "idle"]]
    /\ slotCtx = [w \in Workers |-> [s \in SlotIds |-> 0]]
    /\ heap = [a \in Addrs |-> ZeroRes]
    /\ live = {}
    /\ reqCtxPool = {}
    /\ issued = [w \in Workers |-> 0]
    /\ ctxConn = [a \in Addrs |-> 0]
    /\ oldReq = [a \in Addrs |-> NilReq]
    /\ opened = 0 /\ built = 0 /\ readBy = <<>>
    /\ shards = <<>> /\ whole = ZeroStat
    /\ CliIdle

RunInit ==
    /\ rev \in Revisions
    /\ config \in BmConfigs
    /\ RunStart

\* a run with a request body (the createReq that benchmark.go calls is not
\* part of the source: its requests leave the configuration alone here)
ReqInit ==
    /\ rev \in Revisions
    /\ config \in BodyConfigs
    /\ RunStart

\* mutant of Interrupt: the goroutine loops, for { <-c; close(cancelled) },
\* so a second interrupt closes the closed channel and the process panics
InterruptClosesAgain ==
    /\ coordPc = "wait"
    /\ sigC = 0
    /\ cancelled' = TRUE
    /\ coordPc' = (IF cancelled THEN "panic" ELSE coordPc)
    /\ UNCHANGED <<cliVars, reqVars, config, rev, ctxConn, stats, total, wg, sigC, sigPc,
                   mainPc, branch, timer, done, reqWg, latch, reqCtxCh, slotPc,
                   slotCtx, heap, live, reqCtxPool, issued, shards, whole>>

\* quick.go 619-624: an interrupt is delivered. signal.Notify sends without
\* blocking into c (capacity 1). The goroutine func() { <-c; close(cancelled) }
\* is the only reader of c: while it waits, delivery and its close(cancelled)
\* are one step; once it has returned, the signal stays in c.
Interrupt ==
    /\ coordPc = "wait"
    /\ sigC = 0
    /\ IF sigPc = "recv"
       THEN /\ cancelled' = TRUE
            /\ sigPc' = "exited"
            /\ sigC' = 0
       ELSE /\ sigC' = 1
            /\ UNCHANGED <<cancelled, sigPc>>
    /\ UNCHANGED <<cliVars, reqVars, config, rev, ctxConn, stats, total, coordPc, wg,
                   mainPc, branch, timer, done, reqWg, latch, reqCtxCh, slotPc,
                   slotCtx, heap, live, reqCtxPool, issued, shards, whole>>

\* ---- a request slot of the histogram revision, form.go 466-508

\* form.go 468-482: Get a reqCtx, createReq, call hclient.Do
StartAttempt(w, s) ==
    /\ rev = "histogram"
    /\ slotPc[w][s] = "start"
    /\ TotalIssued < MaxAttempts
    /\ slotCtx' = [slotCtx EXCEPT ![w][s] = PoolGet]
    /\ reqCtxPool' = reqCtxPool \ {PoolGet}
    /\ live' = live \cup {PoolGet}
    /\ slotPc' = [slotPc EXCEPT ![w][s] = "do"]
    /\ \E ct \in OpenTypes(config) : config' = createReq(config, ct)
    /\ IssueRequest(PoolGet)
    /\ issued' = [issued EXCEPT ![w] = @ + 1]
    /\ ctxConn' = [ctxConn EXCEPT ![PoolGet] = w]
    /\ UNCHANGED <<cliVars, rev, stats, total, coordPc, wg, cancelled, sigC, sigPc,
                   mainPc, branch, timer, done, reqWg, latch, reqCtxCh, heap,
                   shards, whole>>

\* form.go 483-498 / benchmark.go 136-148: the attempt returns; the slot writes
\* reqRes.err or reqRes.statusCode, and reqRes.time
StoreOutcome(res, o) ==
    IF o.err # NoErr
    THEN [res EXCEPT !.err = o.err, !.time = o.time]
    ELSE [res EXCEPT !.statusCode = o.statusCode, !.time = o.time]

Complete(w, s, o) ==
    /\ slotPc[w][s] = "do"
    /\ heap' = [heap EXCEPT ![slotCtx[w][s]] = StoreOutcome(@, o)]
    /\ slotPc' = [slotPc EXCEPT ![w][s] = "select"]
    /\ UNCHANGED <<cliVars, reqVars, config, rev, ctxConn, stats, total, coordPc, wg, cancelled, sigC, sigPc,
                   mainPc, branch, timer, done, reqWg, latch, reqCtxCh, slotCtx,
                   live, reqCtxPool, issued, shards, whole>>

\* mutant of SlotSeesDone: the outcome is sent before reqWg.Done(), so the
\* slot passes the two statements only when reqCtxCh has room
SlotSeesDonePushFirst(w, s) ==
    /\ rev = "histogram"
    /\ slotPc[w][s] = "select"
    /\ done[w]
    /\ Len(reqCtxCh[w]) < QueueCap
    /\ reqCtxCh' = [reqCtxCh EXCEPT ![w] = Append(@, slotCtx[w][s])]
    /\ slotCtx' = [slotCtx EXCEPT ![w][s] = 0]
    /\ reqWg' = [reqWg EXCEPT ![w] = @ - 1]
    /\ slotPc' = [slotPc EXCEPT ![w][s] = "exited"]
    /\ UNCHANGED <<cliVars, reqVars, config, rev, ctxConn, stats, total, coordPc, wg, cancelled, sigC, sigPc,
                   mainPc, branch, timer, done, latch,
                   heap, live, reqCtxPool, issued, shards, whole>>

\* form.go 500-501: select takes case <-done, then reqWg.Done()
SlotSeesDone(w, s) ==
    /\ rev = "histogram"
    /\ slotPc[w][s] = "select"
    /\ done[w]
    /\ reqWg' = [reqWg EXCEPT ![w] = @ - 1]
    /\ slotPc' = [slotPc EXCEPT ![w][s] = "push"]
    /\ UNCHANGED <<cliVars, reqVars, config, rev, ctxConn, stats, total, coordPc, wg, cancelled, sigC, sigPc,
                   mainPc, branch, timer, done, latch, reqCtxCh, slotCtx,
                   heap, live, reqCtxPool, issued, shards, whole>>

\* mutant of SlotHandOff: the slot also puts the context it has just queued
\* back into reqCtxPool
SlotHandOffAndPut(w, s) ==
    /\ rev = "histogram"
    /\ slotPc[w][s] = "select"
    /\ Len(reqCtxCh[w]) < QueueCap
    /\ reqCtxCh' = [reqCtxCh EXCEPT ![w] = Append(@, slotCtx[w][s])]
    /\ reqCtxPool' = reqCtxPool \cup {slotCtx[w][s]}
    /\ slotCtx' = [slotCtx EXCEPT ![w][s] = 0]
    /\ slotPc' = [slotPc EXCEPT ![w][s] = "start"]
    /\ UNCHANGED <<cliVars, reqVars, config, rev, ctxConn, stats, total, coordPc, wg, cancelled, sigC, sigPc,
                   mainPc, branch, timer, done, reqWg, latch,
                   heap, live, issued, shards, whole>>

\* mutant of SlotHandOff: reqCtxCh is made without a buffer, so the send
\* waits until the aggregation loop has taken the outcomes queued before
SlotHandOffUnbuffered(w, s) ==
    /\ rev = "histogram"
    /\ slotPc[w][s] = "select"
    /\ Len(reqCtxCh[w]) = 0
    /\ reqCtxCh' = [reqCtxCh EXCEPT ![w] = Append(@, slotCtx[w][s])]
    /\ slotCtx' = [slotCtx EXCEPT ![w][s] = 0]
    /\ slotPc' = [slotPc EXCEPT ![w][s] = "start"]
    /\ UNCHANGED <<cliVars, reqVars, config, rev, ctxConn, stats, total, coordPc, wg, cancelled, sigC, sigPc,
                   mainPc, branch, timer, done, reqWg, latch,
                   heap, live, reqCtxPool, issued, shards, whole>>

\* form.go 504: select takes case reqCtxCh <- ctx, the slot loops
SlotHandOff(w, s) ==
    /\ rev = "histogram"
    /\ slotPc[w][s] = "select"
    /\ Len(reqCtxCh[w]) < QueueCap
    /\ reqCtxCh' = [reqCtxCh EXCEPT ![w] = Append(@, slotCtx[w][s])]
    /\ slotCtx' = [slotCtx EXCEPT ![w][s] = 0]
    /\ slotPc' = [slotPc EXCEPT ![w][s] = "start"]
    /\ UNCHANGED <<cliVars, reqVars, config, rev, ctxConn, stats, total, coordPc, wg, cancelled, sigC, sigPc,
                   mainPc, branch, timer, done, reqWg, latch,
                   heap, live, reqCtxPool, issued, shards, whole>>

\* form.go 502-503 / benchmark.go 152: reqCtxCh <- ctx, then the goroutine ends
SlotPush(w, s) ==
    /\ slotPc[w][s] = "push"
    /\ Len(reqCtxCh[w]) < QueueCap
    /\ reqCtxCh' = [reqCtxCh EXCEPT ![w] = Append(@, slotCtx[w][s])]
    /\ slotCtx' = [slotCtx EXCEPT ![w][s] = 0]
    /\ slotPc' = [slotPc EXCEPT ![w][s] = "exited"]
    /\ UNCHANGED <<cliVars, reqVars, config, rev, ctxConn, stats, total, coordPc, wg, cancelled, sigC, sigPc,
                   mainPc, branch, timer, done, reqWg, latch,
                   heap, live, reqCtxPool, issued, shards, whole>>

\* ---- a request goroutine of the latch revision, benchmark.go 127-153

\* benchmark.go 128-135: reqRes := reqResult{}, createReq, call hclient.Do
StartAttemptLatch(w, s) ==
    /\ rev = "latch"
    /\ slotPc[w][s] = "start"
    /\ slotCtx' = [slotCtx EXCEPT ![w][s] = NewAddr]
    /\ live' = live \cup {NewAddr}
    /\ slotPc' = [slotPc EXCEPT ![w][s] = "do"]
    /\ issued' = [issued EXCEPT ![w] = @ + 1]
    /\ ctxConn' = [ctxConn EXCEPT ![NewAddr] = w]
    /\ UNCHANGED <<cliVars, reqVars, config, rev, stats, total, coordPc, wg, cancelled, sigC, sigPc,
                   mainPc, branch, timer, done, reqWg, latch, reqCtxCh, heap,
                   reqCtxPool, shards, whole>>

\* benchmark.go 150-151: <-latch, then reqWg.Done()
LatchRelease(w, s) ==
    /\ rev = "latch"
    /\ slotPc[w][s] = "select"
    /\ latch[w] > 0
    /\ latch' = [latch EXCEPT ![w] = @ - 1]
    /\ reqWg' = [reqWg EXCEPT ![w] = @ - 1]
    /\ slotPc' = [slotPc EXCEPT ![w][s] = "push"]
    /\ UNCHANGED <<cliVars, reqVars, config, rev, ctxConn, stats, total, coordPc, wg, cancelled, sigC, sigPc,
                   mainPc, branch, timer, done, reqCtxCh, slotCtx,
                   heap, live, reqCtxPool, issued, shards, whole>>

\* ---- the worker's loop, form.go 511-537 / benchmark.go 123-175

\* aggregateStatFromReqCtx(stat, ctx) on the head of reqCtxCh: the stat is
\* updated; form.go 449-450 then zeroes ctx.res and puts ctx back in the pool
AggregateHead(w) ==
    LET a == Head(reqCtxCh[w]) IN
    /\ reqCtxCh' = [reqCtxCh EXCEPT ![w] = Tail(@)]
    /\ stats' = [stats EXCEPT ![w] = AggregateRev(rev, @, heap[a])]
    /\ IF rev = "histogram"
       THEN /\ heap' = [heap EXCEPT ![a] = ZeroRes]
            /\ reqCtxPool' = reqCtxPool \cup {a}
            /\ live' = live
       ELSE /\ heap' = [heap EXCEPT ![a] = ZeroRes]
            /\ reqCtxPool' = reqCtxPool
            /\ live' = live \ {a}

\* case ctx := <-reqCtxCh (form.go 513-514, benchmark.go 155-156)
MainAggregate(w) ==
    /\ mainPc[w] = "loop"
    /\ reqCtxCh[w] # <<>>
    /\ AggregateHead(w)
    /\ UNCHANGED <<cliVars, reqVars, config, rev, ctxConn, total, coordPc, wg, cancelled, sigC, sigPc,
                   mainPc, branch, timer, done, reqWg, latch, slotPc, slotCtx,
                   issued, shards, whole>>

\* mutant of MainLaunch: the send into latch never blocks (a latch without
\* its capacity), so a goroutine is started whatever is in flight
MainLaunchUnbounded(w) ==
    /\ rev = "latch"
    /\ mainPc[w] = "loop"
    /\ TotalSpawned < MaxAttempts
    /\ \E s \in SlotIds :
         /\ slotPc[w][s] = "idle"
         /\ \A t \in SlotIds : slotPc[w][t] = "idle" => s <= t
         /\ slotPc' = [slotPc EXCEPT ![w][s] = "start"]
    /\ latch' = [latch EXCEPT ![w] = @ + 1]
    /\ reqWg' = [reqWg EXCEPT ![w] = @ + 1]
    /\ UNCHANGED <<cliVars, reqVars, config, rev, ctxConn, stats, total, coordPc, wg, cancelled, sigC, sigPc,
                   mainPc, branch, timer, done, reqCtxCh, slotCtx,
                   heap, live, reqCtxPool, issued, shards, whole>>

\* case latch <- struct{}{} (benchmark.go 125-127): reqWg.Add(1), go func()
MainLaunch(w) ==
    /\ rev = "latch"
    /\ mainPc[w] = "loop"
    /\ latch[w] < config.bmReqPerConn
    /\ TotalSpawned < MaxAttempts
    /\ \E s \in SlotIds :
         /\ slotPc[w][s] = "idle"
         /\ \A t \in SlotIds : slotPc[w][t] = "idle" => s <= t
         /\ slotPc' = [slotPc EXCEPT ![w][s] = "start"]
    /\ latch' = [latch EXCEPT ![w] = @ + 1]
    /\ reqWg' = [reqWg EXCEPT ![w] = @ + 1]
    /\ UNCHANGED <<cliVars, reqVars, config, rev, ctxConn, stats, total, coordPc, wg, cancelled, sigC, sigPc,
                   mainPc, branch, timer, done, reqCtxCh, slotCtx,
                   heap, live, reqCtxPool, issued, shards, whole>>

\* case <-timer.C (form.go 516-519, benchmark.go 158-160): the timer created
\* by time.NewTimer(config.bmDuration) has expired and the loop receives from
\* timer.C (nothing else reads the timer, so expiry and receipt are one step);
\* close(done) in the histogram revision, then reqWg.Wait()
MainTimeout(w) ==
    /\ mainPc[w] = "loop"
    /\ timer[w] = "armed"
    /\ timer' = [timer EXCEPT ![w] = "taken"]
    /\ done' = [done EXCEPT ![w] = (rev = "histogram")]
    /\ branch' = [branch EXCEPT ![w] = "timeout"]
    /\ mainPc' = [mainPc EXCEPT ![w] = "wait"]
    /\ UNCHANGED <<cliVars, reqVars, config, rev, ctxConn, stats, total, coordPc, wg, cancelled, sigC, sigPc,
                   reqWg, latch, reqCtxCh, slotPc, slotCtx,
                   heap, live, reqCtxPool, issued, shards, whole>>

\* reqWg.Wait() returns (form.go 519, benchmark.go 160)
MainWaitReturns(w) ==
    /\ mainPc[w] = "wait"
    /\ reqWg[w] = 0
    /\ mainPc' = [mainPc EXCEPT ![w] = "drain"]
    /\ UNCHANGED <<cliVars, reqVars, config, rev, ctxConn, stats, total, coordPc, wg, cancelled, sigC, sigPc,
                   branch, timer, done, reqWg, latch, reqCtxCh, slotPc, slotCtx,
                   heap, live, reqCtxPool, issued, shards, whole>>

\* the drain loop takes case ctx := <-reqCtxCh (form.go 522-523)
MainDrainOne(w) ==
    /\ mainPc[w] = "drain"
    /\ reqCtxCh[w] # <<>>
    /\ AggregateHead(w)
    /\ UNCHANGED <<cliVars, reqVars, config, rev, ctxConn, total, coordPc, wg, cancelled, sigC, sigPc,
                   mainPc, branch, timer, done, reqWg, latch, slotPc, slotCtx,
                   issued, shards, whole>>

\* the drain loop takes default: goto endloop, return, deferred wg.Done()
MainDrainEnd(w) ==
    /\ mainPc[w] = "drain"
    /\ reqCtxCh[w] = <<>>
    /\ mainPc' = [mainPc EXCEPT ![w] = "finished"]
    /\ wg' = wg - 1
    /\ UNCHANGED <<cliVars, reqVars, config, rev, ctxConn, stats, total, coordPc, cancelled, sigC, sigPc,
                   branch, timer, done, reqWg, latch, reqCtxCh, slotPc, slotCtx,
                   heap, live, reqCtxPool, issued, shards, whole>>

\* mutant of MainCancel: cancelled is also watched while the worker waits
\* for its slots or drains, and done is closed again
MainCancelAnyPhase(w) ==
    /\ mainPc[w] \in {"loop", "wait", "drain"}
    /\ cancelled
    /\ done' = [done EXCEPT ![w] = (rev = "histogram")]
    /\ branch' = [branch EXCEPT ![w] = "cancel"]
    /\ mainPc' = [mainPc EXCEPT ![w] = "finished"]
    /\ wg' = wg - 1
    /\ UNCHANGED <<cliVars, reqVars, config, rev, ctxConn, stats, total, coordPc, cancelled, sigC, sigPc,
                   timer, reqWg, latch, reqCtxCh, slotPc, slotCtx,
                   heap, live, reqCtxPool, issued, shards, whole>>

\* mutant of MainCancel: the cancellation is a value sent on the channel
\* instead of a close, so one worker receives it
MainCancelTargeted(w) ==
    /\ mainPc[w] = "loop"
    /\ cancelled
    /\ \A v \in Workers : branch[v] # "cancel"
    /\ done' = [done EXCEPT ![w] = (rev = "histogram")]
    /\ branch' = [branch EXCEPT ![w] = "cancel"]
    /\ mainPc' = [mainPc EXCEPT ![w] = "finished"]
    /\ wg' = wg - 1
    /\ UNCHANGED <<cliVars, reqVars, config, rev, ctxConn, stats, total, coordPc, cancelled, sigC, sigPc,
                   timer, reqWg, latch, reqCtxCh, slotPc, slotCtx,
                   heap, live, reqCtxPool, issued, shards, whole>>

\* case <-cancelled (form.go 529-534, benchmark.go 170-172): close(done) in the
\* histogram revision, goto endloop, return, deferred wg.Done()
MainCancel(w) ==
    /\ mainPc[w] = "loop"
    /\ cancelled
    /\ done' = [done EXCEPT ![w] = (rev = "histogram")]
    /\ branch' = [branch EXCEPT ![w] = "cancel"]
    /\ mainPc' = [mainPc EXCEPT ![w] = "finished"]
    /\ wg' = wg - 1
    /\ UNCHANGED <<cliVars, reqVars, config, rev, ctxConn, stats, total, coordPc, cancelled, sigC, sigPc,
                   timer, reqWg, latch, reqCtxCh, slotPc, slotCtx,
                   heap, live, reqCtxPool, issued, shards, whole>>

\* ---- the coordinator, quick.go 632-635

\* bmStat.PrintErr, form.go 317-325: the lines written (the map is ranged
\* over in no fixed order: the lines are a set)
PrintErr(bs) ==
    IF bs.errsNil THEN {}
    ELSE {<<"  Errors:", 0>>} \cup {<<d, bs.errs[d]>> : d \in DOMAIN bs.errs}

\* bmStat.PrintBadStatusCode, form.go 377-382
PrintBadStatusCode(bs) ==
    IF bs.badStatusCode = 0 THEN {}
    ELSE {<<"  Non-2xx or 3xx responses:", bs.badStatusCode>>}

\* total.Merge(stats[i]) for i = from .. bmConn
RECURSIVE MergeFrom(_, _, _, _)
MergeFrom(r, acc, all, from) ==
    IF from > Len(all) THEN acc
    ELSE MergeFrom(r, MergeRev(r, acc, all[from]), all, from + 1)

\* mutant of printStats: the loop starts at i = 0, so stats[0] is merged
\* into itself
printStatsFromZero(all) == MergeFrom("histogram", all[1], all, 1)

\* form.go 393-396: total := stats[0], then Merge(stats[i]) for i >= 1
printStats(all) == MergeFrom("histogram", all[1], all, 2)

\* benchmark.go 79-82: total := &bmStat{}, then Merge(&stat) for every stat
printStatsLatch(all) == MergeFrom("latch", ZeroStat, all, 1)

\* mutant of PrintStats: the coordinator does not wait for the workers
\* (no wg.Wait() before printStats)
PrintStatsNoWait ==
    /\ coordPc = "wait"
    /\ coordPc' = "printed"
    /\ IF rev = "histogram"
       THEN /\ total' = printStats(stats)
            /\ stats' = [stats EXCEPT ![1] = printStats(stats)]
       ELSE /\ total' = printStatsLatch(stats)
            /\ stats' = stats
    /\ UNCHANGED <<cliVars, reqVars, config, rev, ctxConn, wg, cancelled, sigC, sigPc,
                   mainPc, branch, timer, done, reqWg, latch, reqCtxCh, slotPc,
                   slotCtx, heap, live, reqCtxPool, issued, shards, whole>>

\* wg.Wait() returns and printStats runs; in the histogram revision total is
\* the pointer stats[0], so that stat is the one Merge writes
PrintStats ==
    /\ coordPc = "wait"
    /\ wg = 0
    /\ coordPc' = "printed"
    /\ IF rev = "histogram"
       THEN /\ total' = printStats(stats)
            /\ stats' = [stats EXCEPT ![1] = printStats(stats)]
       ELSE /\ total' = printStatsLatch(stats)
            /\ stats' = stats
    /\ UNCHANGED <<cliVars, reqVars, config, rev, ctxConn, wg, cancelled, sigC, sigPc,
                   mainPc, branch, timer, done, reqWg, latch, reqCtxCh, slotPc,
                   slotCtx, heap, live, reqCtxPool, issued, shards, whole>>

Next ==
    \/ Interrupt
    \/ \E w \in Workers, s \in SlotIds : StartAttempt(w, s)
    \/ \E w \in Workers, s \in SlotIds, o \in RunOutcomes : Complete(w, s, o)
    \/ \E w \in Workers, s \in SlotIds : SlotSeesDone(w, s)
    \/ \E w \in Workers, s \in SlotIds : SlotHandOff(w, s)
    \/ \E w \in Workers, s \in SlotIds : SlotPush(w, s)
    \/ \E w \in Workers, s \in SlotIds : StartAttemptLatch(w, s)
    \/ \E w \in Workers, s \in SlotIds : LatchRelease(w, s)
    \/ \E w \in Workers : MainAggregate(w)
    \/ \E w \in Workers : MainLaunch(w)
    \/ \E w \in Workers : MainTimeout(w)
    \/ \E w \in Workers : MainWaitReturns(w)
    \/ \E w \in Workers : MainDrainOne(w)
    \/ \E w \in Workers : MainDrainEnd(w)
    \/ \E w \in Workers : MainCancel(w)
    \/ PrintStats

Spec == RunInit /\ [][Next]_vars

\* ---- a failing createReq, form.go 470-474 / benchmark.go 129-133
\* createReq returns an error and the slot calls fatal (quick.go 387-390):
\* the message goes to stderr and os.Exit(1) ends the process.

\* mutant of Exited: fatal prints the error and returns (no os.Exit)
ExitedNever == FALSE

\* the process has been ended by os.Exit(1): no goroutine takes another step
Exited == coordPc = "fatal"

CreateReqFails(w, s) ==
    /\ slotPc[w][s] = "start"
    /\ coordPc \in {"wait", "printed"}
    /\ coordPc' = "fatal"
    /\ UNCHANGED <<cliVars, reqVars, config, rev, ctxConn, stats, total, wg, cancelled, sigC, sigPc,
                   mainPc, branch, timer, done, reqWg, latch, reqCtxCh, slotPc,
                   slotCtx, heap, live, reqCtxPool, issued, shards, whole>>

FatalNext ==
    \/ ~Exited /\ Next
    \/ \E w \in Workers, s \in SlotIds : CreateReqFails(w, s)

FatalSpec == RunInit /\ [][FatalNext]_vars

ReqSpec == ReqInit /\ [][Next]_vars

\* a run with or without a request body
BodyInit ==
    /\ rev \in Revisions
    /\ config \in BodyConfigs \cup BmConfigs
    /\ RunStart

BodySpec == BodyInit /\ [][Next]_vars

\* ---- fairness: the Go scheduler runs every runnable goroutine, and a select
\* whose case stays ready is not passed over for ever.  Nothing is assumed of
\* the network (Complete), of the timer (MainTimeout) or of the user (Interrupt).
ConnIds == {1, 2}

WorkerFairness(w) ==
    /\ WF_vars(w \in Workers /\ MainCancel(w))
    /\ WF_vars(w \in Workers /\ MainAggregate(w))
    /\ WF_vars(w \in Workers /\ MainWaitReturns(w))
    /\ WF_vars(w \in Workers /\ MainDrainOne(w))
    /\ WF_vars(w \in Workers /\ MainDrainEnd(w))
    /\ WF_vars(w \in Workers /\ \E s \in SlotIds : StartAttempt(w, s))
    /\ WF_vars(w \in Workers /\ \E s \in SlotIds : StartAttemptLatch(w, s))
    /\ WF_vars(w \in Workers /\ \E s \in SlotIds : SlotSeesDone(w, s))
    /\ WF_vars(w \in Workers /\ \E s \in SlotIds : SlotPush(w, s))
    /\ WF_vars(w \in Workers /\ \E s \in SlotIds : LatchRelease(w, s))

FairSpec == Spec /\ (\A w \in ConnIds : WorkerFairness(w)) /\ WF_vars(PrintStats)

\* ---- runs that end: the exploration bound MaxAttempts limits the requests
\* issued while a worker's loop runs; while the worker waits in reqWg.Wait()
\* its slots run on as the code does (the worker no longer aggregates, so
\* reqCtxCh bounds them).

\* form.go 468-482 again, for a slot that loops while its worker waits
StartAttemptDraining(w, s) ==
    /\ rev = "histogram"
    /\ slotPc[w][s] = "start"
    /\ mainPc[w] = "wait"
    /\ TotalIssued >= MaxAttempts
    /\ slotCtx' = [slotCtx EXCEPT ![w][s] = PoolGet]
    /\ reqCtxPool' = reqCtxPool \ {PoolGet}
    /\ live' = live \cup {PoolGet}
    /\ slotPc' = [slotPc EXCEPT ![w][s] = "do"]
    /\ \E ct \in OpenTypes(config) : config' = createReq(config, ct)
    /\ IssueRequest(PoolGet)
    /\ issued' = [issued EXCEPT ![w] = @ + 1]
    /\ ctxConn' = [ctxConn EXCEPT ![PoolGet] = w]
    /\ UNCHANGED <<cliVars, rev, stats, total, coordPc, wg, cancelled, sigC, sigPc,
                   mainPc, branch, timer, done, reqWg, latch, reqCtxCh, heap,
                   shards, whole>>

\* every request returns (createReq gives each one the deadline
\* config.maxTime, which checkArgs sets to bmDuration), and every runnable
\* goroutine runs
SlotFairness(w) ==
    /\ WF_vars(w \in Workers /\ \E s \in SlotIds, o \in RunOutcomes : Complete(w, s, o))
    /\ WF_vars(w \in Workers /\ \E s \in SlotIds : SlotSeesDone(w, s) \/ SlotHandOff(w, s))

\* a run that no interrupt reaches
TimeoutNext ==
    \/ \E w \in Workers, s \in SlotIds : StartAttempt(w, s)
    \/ \E w \in Workers, s \in SlotIds : StartAttemptDraining(w, s)
    \/ \E w \in Workers, s \in SlotIds, o \in RunOutcomes : Complete(w, s, o)
    \/ \E w \in Workers, s \in SlotIds : SlotSeesDone(w, s)
    \/ \E w \in Workers, s \in SlotIds : SlotHandOff(w, s)
    \/ \E w \in Workers, s \in SlotIds : SlotPush(w, s)
    \/ \E w \in Workers, s \in SlotIds : StartAttemptLatch(w, s)
    \/ \E w \in Workers, s \in SlotIds : LatchRelease(w, s)
    \/ \E w \in Workers : MainAggregate(w)
    \/ \E w \in Workers : MainLaunch(w)
    \/ \E w \in Workers : MainTimeout(w)
    \/ \E w \in Workers : MainWaitReturns(w)
    \/ \E w \in Workers : MainDrainOne(w)
    \/ \E w \in Workers : MainDrainEnd(w)
    \/ PrintStats

\* the slots of the histogram revision run on after the deadline, so one
\* connection with one slot is explored there (connections do not wait for
\* each other); the latch revision is explored in every configuration
TimeoutInit ==
    /\ RunInit
    /\ rev = "histogram" => (config.bmConn = 1 /\ config.bmReqPerConn = 1)

\* the timer of every worker fires once bmDuration has elapsed
TimeoutSpec ==
    /\ TimeoutInit /\ [][TimeoutNext]_vars
    /\ \A w \in ConnIds : WorkerFairness(w) /\ SlotFairness(w)
    /\ \A w \in ConnIds : WF_vars(w \in Workers /\ MainTimeout(w))
    /\ \A w \in ConnIds :
         WF_vars(w \in Workers /\ \E s \in SlotIds : StartAttemptDraining(w, s))
    /\ WF_vars(PrintStats)

\* two connections and an interrupt that may come at any time; nothing is
\* assumed of the timers
CancelInit == RunInit /\ config.bmConn = 2

CancelSpec ==
    /\ CancelInit /\ [][Next]_vars
    /\ \A w \in ConnIds : WorkerFairness(w) /\ SlotFairness(w)
    /\ WF_vars(PrintStats)

\* ---- a run whose slots fill reqCtxCh: one connection of the histogram
\* revision issues up to QueueCap + ExtraAttempts requests, so that a slot
\* finds the queue full while its worker is still in its loop

\* form.go 468-482 again, for the requests beyond MaxAttempts
StartAttemptMore(w, s) ==
    /\ rev = "histogram"
    /\ slotPc[w][s] = "start"
    /\ TotalIssued >= MaxAttempts
    /\ TotalIssued < QueueCap + ExtraAttempts
    /\ slotCtx' = [slotCtx EXCEPT ![w][s] = PoolGet]
    /\ reqCtxPool' = reqCtxPool \ {PoolGet}
    /\ live' = live \cup {PoolGet}
    /\ slotPc' = [slotPc EXCEPT ![w][s] = "do"]
    /\ \E ct \in OpenTypes(config) : config' = createReq(config, ct)
    /\ IssueRequest(PoolGet)
    /\ issued' = [issued EXCEPT ![w] = @ + 1]
    /\ ctxConn' = [ctxConn EXCEPT ![PoolGet] = w]
    /\ UNCHANGED <<cliVars, rev, stats, total, coordPc, wg, cancelled, sigC, sigPc,
                   mainPc, branch, timer, done, reqWg, latch, reqCtxCh, heap,
                   shards, whole>>

LoopNext ==
    \/ Next
    \/ \E w \in Workers, s \in SlotIds : StartAttemptMore(w, s)

\* one connection; the histogram revision with one slot (a slot blocks on a
\* full queue once 2 x bmReqPerConn + 1 attempts have completed)
LoopInit ==
    /\ RunInit
    /\ config.bmConn = 1
    /\ rev = "histogram" => config.bmReqPerConn = 1

\* the aggregation loop and the slots are scheduled fairly and requests
\* return; nothing is assumed of the timer or of the user
LoopSpec ==
    /\ LoopInit /\ [][LoopNext]_vars
    /\ \A w \in ConnIds : WorkerFairness(w) /\ SlotFairness(w)
    /\ \A w \in ConnIds :
         WF_vars(w \in Workers /\ \E s \in SlotIds : StartAttemptMore(w, s))
    /\ WF_vars(PrintStats)

\* the exploration bound of a loop run keeps this slot from issuing
LoopStalled(w, s) ==
    slotPc[w][s] = "start" /\ TotalIssued >= QueueCap + ExtraAttempts

\* ------------------------------------------------------------ helpers
ErrCount(bs, d) == IF d \in DOMAIN bs.errs THEN bs.errs[d] ELSE 0

RECURSIVE SumMap(_, _)
SumMap(m, keys) ==
    IF keys = {} THEN 0
    ELSE LET k == CHOOSE x \in keys : TRUE
         IN m[k] + SumMap(m, keys \ {k})

SumErrs(bs) == SumMap(bs.errs, DOMAIN bs.errs)

\* outcomes a slot of w holds or has in flight
Held(w) == {s \in SlotIds : slotPc[w][s] \in {"do", "select", "push"}}

\* the exploration bound, not the program, keeps this slot from issuing
Stalled(w) == \E s \in SlotIds : slotPc[w][s] = "start" /\ TotalIssued >= MaxAttempts

\* ================================================================ claims

\* C1: a worker that has left through the timeout branch has counted every
\* request it issued: when it reports finished, its stat's reqs equals the
\* number of requests issued on its connection.
C1_TimeoutCountsEveryAttempt ==
    \A w \in Workers :
        (coordPc = "wait" /\ mainPc[w] = "finished" /\ branch[w] = "timeout")
            => stats[w].reqs = issued[w]

C3_NoRelaunchAfterTimeout ==
    [][\A w \in Workers : \A s \in SlotIds :
         (branch[w] = "timeout" /\ done[w] /\ slotPc[w][s] = "select")
            => slotPc'[w][s] # "start"]_vars

\* C4: on every connection at most bmReqPerConn attempts are in flight
\* (request issued, outcome not yet produced), hence at most
\* bmConn * bmReqPerConn in the run, in both revisions.
C4_InFlightBounded ==
    /\ \A w \in Workers : Cardinality(InFlight(w)) <= config.bmReqPerConn
    /\ SumTo([w \in Workers |-> Cardinality(InFlight(w))], config.bmConn)
          <= config.bmConn * config.bmReqPerConn

\* the bound binds: a latch-revision worker has bmReqPerConn attempts in
\* flight while more requests could still be issued
C4_Witness ==
    /\ rev = "latch"
    /\ TotalSpawned < MaxAttempts
    /\ \E w \in Workers :
         /\ mainPc[w] = "loop"
         /\ Cardinality(InFlight(w)) = config.bmReqPerConn

\* every address that is in a queue, held by a slot or in the pool
AddrUses ==
    SumTo([w \in Workers |-> Len(reqCtxCh[w])], config.bmConn)
    + SumTo([w \in Workers |-> Cardinality({s \in SlotIds : slotCtx[w][s] # 0})],
            config.bmConn)
    + Cardinality(reqCtxPool)

AddrsUsed ==
    UNION {{reqCtxCh[w][i] : i \in 1..Len(reqCtxCh[w])} : w \in Workers}
    \cup UNION {{slotCtx[w][s] : s \in SlotIds} \ {0} : w \in Workers}
    \cup reqCtxPool

\* C5: every outcome is in exactly one place: in flight or held by its slot,
\* in the queue, or folded into the stat (so it is queued once and counted at
\* most once); no reqCtx is at once in a queue, held by a slot or in the pool;
\* a queued reqCtx holds an outcome and a reqCtx taken for a new attempt holds
\* none.
C5_OutcomesOnceAndContextsExclusive ==
    /\ coordPc = "wait" =>
         \A w \in Workers :
            issued[w] = stats[w].reqs + Len(reqCtxCh[w]) + Cardinality(Held(w))
    /\ Cardinality(AddrsUsed) = AddrUses
    /\ \A w \in Workers :
         /\ \A i \in 1..Len(reqCtxCh[w]) : heap[reqCtxCh[w][i]] # ZeroRes
         /\ \A s \in SlotIds : slotPc[w][s] = "do" => heap[slotCtx[w][s]] = ZeroRes

\* the context of an aggregated outcome has been recycled: a slot holds it
\* again, with the outcome of a later attempt
C5_Witness ==
    /\ rev = "histogram"
    /\ \E w \in Workers :
         /\ stats[w].reqs >= 1
         /\ \E s \in SlotIds :
              /\ slotPc[w][s] = "select"
              /\ slotCtx[w][s] = 1
              /\ heap[1] # ZeroRes

\* sum of a field over the connections' stats
RECURSIVE SumStats(_, _, _)
SumStats(F(_), all, n) == IF n = 0 THEN 0 ELSE F(all[n]) + SumStats(F, all, n - 1)

Reqs(bs) == bs.reqs
Bad(bs) == bs.badStatusCode

\* C6: printStats folds each connection's stat into the total exactly once:
\* reqs, badStatusCode and every error count of the printed total are the sums
\* over the stats the workers left.
C6_PrintStatsSumsOnce ==
    [][(coordPc = "wait" /\ coordPc' = "printed") =>
         /\ total'.reqs = SumStats(Reqs, stats, config.bmConn)
         /\ total'.badStatusCode = SumStats(Bad, stats, config.bmConn)
         /\ \A d \in Errs :
              ErrCount(total', d) =
                 SumStats(LAMBDA bs : ErrCount(bs, d), stats, config.bmConn)]_vars

\* two connections, both with outcomes, have been merged and printed
C6_Witness ==
    /\ coordPc = "printed"
    /\ rev = "histogram"
    /\ config.bmConn = 2
    /\ stats[2].reqs >= 1
    /\ total.reqs > stats[2].reqs
    /\ total.badStatusCode >= 1
    /\ ~total.errsNil

\* C7: Merge is commutative and associative on stats built from outcomes:
\* merge(a,b) = merge(b,a) and merge(merge(a,b),c) = merge(a,merge(b,c)), in
\* reqs, badStatusCode, error counts and latency bins.
C7_MergeCommutativeAssociative ==
    \A i \in ShardIds : \A j \in ShardIds : \A k \in ShardIds :
        LET a == shards[i]
            b == shards[j]
            c == shards[k]
        IN /\ MergeRev(rev, a, b) = MergeRev(rev, b, a)
           /\ MergeRev(rev, MergeRev(rev, a, b), c)
                 = MergeRev(rev, a, MergeRev(rev, b, c))

\* two stats share an error description with different counts, and hold
\* latency samples
C7_Witness ==
    /\ rev = "histogram"
    /\ \E d \in Errs :
         /\ d \in DOMAIN shards[1].errs
         /\ d \in DOMAIN shards[2].errs
         /\ shards[1].errs[d] # shards[2].errs[d]
    /\ DOMAIN shards[1].latency.counts # {}

\* C8: aggregating the outcomes in two groups and merging the two stats gives
\* the stat that aggregating all of them into one stat gives (reqs,
\* badStatusCode, error counts, latency bins).
C8_SplitThenMergeEqualsWhole ==
    shards[3].reqs = 0 =>
        /\ MergeRev(rev, shards[1], shards[2]) = whole
        /\ MergeRev(rev, shards[2], shards[1]) = whole

\* both groups are non-empty, with an error, a bad status and latency samples
C8_Witness ==
    /\ rev = "histogram"
    /\ shards[3].reqs = 0
    /\ shards[1].reqs >= 1
    /\ shards[2].reqs >= 1
    /\ ~whole.errsNil
    /\ whole.badStatusCode >= 1
    /\ DOMAIN shards[2].latency.counts # {}

\* C9: aggregating one outcome adds 1 to reqs; with an error it adds 1 to that
\* description's count and leaves badStatusCode alone; without an error it
\* adds 1 to badStatusCode exactly when statusCode < 200 or >= 400 and leaves
\* the error map alone.
C9_AggregateOneOutcome ==
    \A i \in ShardIds : \A o \in Outcomes :
        LET s == shards[i]
            n == aggregateStatFromReqCtx(s, o)
        IN /\ n.reqs = s.reqs + 1
           /\ o.err # NoErr =>
                /\ ErrCount(n, o.err) = ErrCount(s, o.err) + 1
                /\ \A d \in Errs \ {o.err} : ErrCount(n, d) = ErrCount(s, d)
                /\ n.badStatusCode = s.badStatusCode
           /\ o.err = NoErr =>
                /\ n.badStatusCode =
                     s.badStatusCode
                       + (IF o.statusCode < 200 \/ o.statusCode >= 400 THEN 1 ELSE 0)
                /\ n.errs = s.errs
                /\ n.errsNil = s.errsNil

\* a stat that has counted the same error text twice and a 1xx response
C9_Witness ==
    /\ rev = "histogram"
    /\ \E i \in ShardIds :
         /\ shards[i].reqs = 3
         /\ ErrCount(shards[i], "timeout") = 2
         /\ shards[i].badStatusCode = 1

\* C10: in every stat badStatusCode plus the sum of the error counts is at
\* most reqs, in the histogram revision and in benchmark.go alike.
C10_BadPlusErrorsAtMostReqs ==
    \A i \in ShardIds : shards[i].badStatusCode + SumErrs(shards[i]) <= shards[i].reqs

\* C11: when createReq fails in any slot the process exits at once: from then
\* on no report is printed (the coordinator never reaches printStats), no
\* goroutine takes a step, and the failure is in no stat: every stat and the
\* total are what they were before the failing call.
C11_FatalEndsProcessUnrecorded ==
    [][/\ (coordPc # "fatal" /\ coordPc' = "fatal") =>
             (stats' = stats /\ total' = total)
       /\ coordPc = "fatal" =>
             (coordPc' = "fatal" /\ stats' = stats /\ total' = total
              /\ mainPc' = mainPc /\ slotPc' = slotPc /\ reqCtxCh' = reqCtxCh)]_vars

\* the process has exited before any report, with two workers running, an
\* outcome already counted and an attempt in flight
C11_Witness ==
    /\ coordPc = "fatal"
    /\ config.bmConn = 2
    /\ total = ZeroStat
    /\ \E w \in Workers : stats[w].reqs >= 1
    /\ \E w \in Workers : mainPc[w] = "loop" /\ InFlight(w) # {}

\* C12: when no createReq fails, every request returns and no interrupt
\* arrives, every worker takes the timeout branch and reaches finished
\* whatever the outcomes are and however full reqCtxCh is at the deadline, and
\* the report is printed; once printed it is not printed again.
C12_TimeoutRunEndsAndPrintsOnce ==
    /\ <>(coordPc = "printed"
          /\ \A w \in Workers : mainPc[w] = "finished" /\ branch[w] = "timeout")
    /\ [][coordPc = "printed" => (coordPc' = "printed" /\ total' = total)]_vars

\* the deadline has passed with reqCtxCh full: the worker waits in
\* reqWg.Wait() and a slot that has called reqWg.Done() is blocked on its send
C12_Witness ==
    \E w \in Workers :
        /\ mainPc[w] = "wait"
        /\ branch[w] = "timeout"
        /\ Len(reqCtxCh[w]) = QueueCap
        /\ \E s \in SlotIds : slotPc[w][s] = "push"

\* C13: a worker's stat is written only by that worker's aggregation loop
\* (while the coordinator waits), and by printStats only after every worker
\* has finished; no step of a slot writes a stat, also when a cancellation
\* has left attempts in flight.
C13_StatSingleWriter ==
    [][\A w \in Workers :
         stats'[w] # stats[w] =>
            \/ /\ coordPc = "wait" /\ coordPc' = "wait"
               /\ mainPc[w] \in {"loop", "drain"}
               /\ reqCtxCh[w] # <<>>
               /\ reqCtxCh'[w] = Tail(reqCtxCh[w])
               /\ slotPc' = slotPc
               /\ \A v \in Workers \ {w} : stats'[v] = stats[v]
            \/ /\ coordPc = "wait" /\ coordPc' = "printed"
               /\ \A v \in Workers : mainPc[v] = "finished"
               /\ slotPc' = slotPc]_vars

\* the report has been printed from two stats after a cancellation, while an
\* attempt of a finished worker is still in flight
C13_Witness ==
    /\ coordPc = "printed"
    /\ cancelled
    /\ config.bmConn = 2
    /\ total.reqs >= 1
    /\ \E w \in Workers : branch[w] = "cancel" /\ InFlight(w) # {}

\* the addresses a connection's slots hold or its queue contains
InUseBy(w) ==
    ({slotCtx[w][s] : s \in SlotIds} \ {0})
    \cup {reqCtxCh[w][i] : i \in 1..Len(reqCtxCh[w])}

C15_ConfigNeverWritten ==
    [][config' = config]_vars

\* the moves of a worker: running ("loop") to draining ("wait", then
\* "drain") to finished, or running to finished through the cancel branch
WorkerMoves ==
    {<<"loop", "wait">>, <<"wait", "drain">>, <<"drain", "finished">>,
     <<"loop", "finished">>}

\* C16: a worker takes one shutdown branch, once: it leaves its running loop
\* either into draining (timeout) or straight to finished (cancel), never
\* goes from draining to the cancel branch or back to running, and done is
\* closed only at that one step, never when it is already closed.
C16_OneShutdownBranchOnce ==
    [][\A w \in Workers :
         /\ mainPc'[w] # mainPc[w] => <<mainPc[w], mainPc'[w]>> \in WorkerMoves
         /\ branch'[w] # branch[w] =>
               /\ branch[w] = "none" /\ mainPc[w] = "loop" /\ ~done[w]
               /\ branch'[w] = (IF mainPc'[w] = "wait" THEN "timeout" ELSE "cancel")
               /\ mainPc'[w] = (IF branch'[w] = "timeout" THEN "wait" ELSE "finished")
         /\ (mainPc[w] = "loop" /\ mainPc'[w] # "loop") => branch'[w] # branch[w]
         /\ done'[w] # done[w] => (~done[w] /\ branch'[w] # branch[w])]_vars

\* a worker is draining after a timeout while the cancellation signal is
\* ready as well
C16_Witness ==
    /\ cancelled
    /\ rev = "histogram"
    /\ \E w \in Workers :
         mainPc[w] = "drain" /\ branch[w] = "timeout" /\ done[w]

\* C17: one interrupt closes the one cancelled channel; after it every worker
\* takes a shutdown branch and calls wg.Done(), so wg.Wait() returns and the
\* report is printed, with no second signal and whether or not any timer
\* fires (requests return; a worker whose slot the exploration bound stops
\* while it drains is left out).
C17_OneInterruptStopsAllWorkers ==
    cancelled ~> (coordPc = "printed"
                  \/ \E w \in Workers : mainPc[w] = "wait" /\ Stalled(w))

\* the single interrupt has been delivered while both workers were in their
\* running loops with their timers unfired, and the report is printed
C17_Witness ==
    /\ coordPc = "printed"
    /\ cancelled
    /\ sigC = 0
    /\ config.bmConn = 2
    /\ \A w \in Workers : branch[w] = "cancel" /\ timer[w] = "armed"

\* C18: the cancelled channel is closed once, by the first interrupt; an
\* interrupt that arrives after it changes no state of the coordinator or of
\* any worker or slot: it is left in the signal buffer c.
C18_SecondInterruptIsNoOp ==
    [][/\ cancelled' # cancelled =>
             (~cancelled /\ sigPc = "recv" /\ sigPc' = "exited")
       /\ cancelled => cancelled'
       /\ (cancelled /\ sigC' # sigC) =>
             /\ sigC = 0 /\ sigC' = 1
             /\ UNCHANGED <<config, rev, ctxConn, stats, total, coordPc, wg,
                            cancelled, sigPc, mainPc, branch, timer, done, reqWg,
                            latch, reqCtxCh, slotPc, slotCtx, heap, live,
                            reqCtxPool, issued>>]_vars

\* a second interrupt has been delivered while workers were still running
C18_Witness ==
    /\ cancelled
    /\ sigPc = "exited"
    /\ sigC = 1
    /\ coordPc = "wait"
    /\ \E w \in Workers : mainPc[w] = "loop"

\* samples in one bin of a stat's latency histogram
Bin(bs, v) == IF v \in DOMAIN bs.latency.counts THEN bs.latency.counts[v] ELSE 0

\* the sample values an outcome can carry
Times == {o.time : o \in Outcomes}

\* samples a stat's latency histogram holds
Samples(bs) == SumMap(bs.latency.counts, DOMAIN bs.latency.counts)

C20_OneSamplePerOutcome ==
    rev = "histogram" =>
      \A i \in ShardIds :
        /\ Samples(shards[i]) <= shards[i].reqs
        /\ \A o \in Outcomes :
             LET s == shards[i]
                 n == aggregateStatFromReqCtx(s, o)
                 taken == o.time >= 0 /\ o.time <= config.bmDuration
             IN /\ n.reqs = s.reqs + 1
                /\ Samples(n) = Samples(s) + (IF taken THEN 1 ELSE 0)
                /\ \A v \in Times :
                     Bin(n, v) = Bin(s, v) + (IF taken /\ v = o.time THEN 1 ELSE 0)
                /\ n.reqs - Samples(n) = (s.reqs - Samples(s)) + (IF taken THEN 0 ELSE 1)
                /\ o.err # NoErr => ErrCount(n, o.err) = ErrCount(s, o.err) + 1
                /\ (o.err = NoErr /\ o.statusCode >= 400) =>
                      n.badStatusCode = s.badStatusCode + 1

\* a stat that has counted a failed attempt whose sample was taken and an
\* attempt whose sample was rejected
C20_Witness ==
    /\ rev = "histogram"
    /\ \E i \in ShardIds :
         /\ shards[i].reqs = 3
         /\ Samples(shards[i]) = 2
         /\ ~shards[i].errsNil
         /\ Bin(shards[i], 1) >= 1

\* a stat's error map is nil or holds an entry, and every entry counts >= 1
ErrsWellFormed(bs) ==
    /\ bs.errsNil <=> DOMAIN bs.errs = {}
    /\ \A d \in DOMAIN bs.errs : bs.errs[d] >= 1

\* C21: the report has an "Errors:" section iff an aggregated outcome carried
\* an error: every connection's stat and the merged total have a nil error map
\* or one with an entry of count >= 1; aggregating an outcome makes the map
\* non-nil exactly when the outcome carries an error; the total's map is nil
\* iff every connection's is; the printed lines list exactly the errors
\* counted, and (every response of the run having status 404) a total
\* without errors prints no "Errors:" and has badStatusCode = reqs.
C21_ErrorsSectionIffError ==
    /\ [](/\ \A w \in Workers : ErrsWellFormed(stats[w])
          /\ ErrsWellFormed(total)
          /\ coordPc = "printed" =>
               /\ (<<"  Errors:", 0>> \in PrintErr(total)) <=> SumErrs(total) >= 1
               /\ \A d \in Errs : ErrCount(total, d) >= 1 <=>
                                      <<d, ErrCount(total, d)>> \in PrintErr(total)
               /\ SumErrs(total) = 0 =>
                     /\ PrintErr(total) = {}
                     /\ total.badStatusCode = total.reqs
                     /\ total.reqs >= 1 =>
                           PrintBadStatusCode(total) =
                              {<<"  Non-2xx or 3xx responses:", total.reqs>>})
    /\ [][/\ \A w \in Workers :
              (coordPc' = "wait" /\ stats'[w] # stats[w]) =>
                 LET res == heap[Head(reqCtxCh[w])]
                 IN IF res.err # NoErr
                    THEN /\ ~stats'[w].errsNil
                         /\ SumErrs(stats'[w]) = SumErrs(stats[w]) + 1
                    ELSE /\ stats'[w].errsNil = stats[w].errsNil
                         /\ stats'[w].errs = stats[w].errs
          /\ (coordPc = "wait" /\ coordPc' = "printed") =>
                /\ total'.errsNil <=> \A v \in Workers : stats[v].errsNil
                /\ SumErrs(total') =
                      SumStats(LAMBDA bs : SumErrs(bs), stats, config.bmConn)]_vars

\* two connections have each counted a 404 response and no error, and the
\* report is printed
C21_Witness ==
    /\ coordPc = "printed"
    /\ config.bmConn = 2
    /\ total.errsNil
    /\ total.badStatusCode = MaxAttempts
    /\ total.reqs = MaxAttempts
    /\ PrintErr(total) = {}

\* the slots of the histogram revision (bmReqPerConn of them)
LoopSlots == 1..MaxReqPerConn

\* C22: while a worker is in its loop, a slot whose attempt has completed
\* can hand its outcome to reqCtxCh exactly when the queue holds fewer than
\* 2 x bmReqPerConn outcomes; the hand-off queues the outcome, changes no
\* stat (the outcome is not yet aggregated) and puts the slot at the top of
\* its loop, where the next attempt can start whatever the queue holds; with
\* the aggregation loop and the slots scheduled fairly a slot that has
\* completed an attempt hands it off and issues the next request, unless the
\* worker takes a shutdown branch first.
C22_SlotsKeepLaunching ==
    /\ [](rev = "histogram" =>
            \A w \in Workers : \A s \in SlotIds :
               /\ (slotPc[w][s] = "select" /\ mainPc[w] = "loop") =>
                     /\ ENABLED SlotHandOff(w, s) <=> Len(reqCtxCh[w]) < QueueCap
                     /\ ~ENABLED SlotSeesDone(w, s)
               /\ (slotPc[w][s] = "start" /\ ~LoopStalled(w, s)) =>
                     ENABLED (StartAttempt(w, s) \/ StartAttemptMore(w, s)))
    /\ [][rev = "histogram" =>
            \A w \in Workers : \A s \in SlotIds :
               (slotPc[w][s] = "select" /\ slotPc'[w][s] = "start") =>
                  /\ reqCtxCh'[w] = Append(reqCtxCh[w], slotCtx[w][s])
                  /\ Len(reqCtxCh[w]) < QueueCap
                  /\ stats' = stats]_vars
    /\ \A w \in ConnIds : \A s \in LoopSlots :
          (rev = "histogram" /\ w \in Workers /\ s \in SlotIds
             /\ mainPc[w] = "loop" /\ slotPc[w][s] = "select")
          ~> ((w \in Workers /\ s \in SlotIds) =>
                 (mainPc[w] # "loop" \/ slotPc[w][s] = "do" \/ LoopStalled(w, s)))

\* a slot has its next attempt in flight while the outcomes of earlier
\* attempts, its own among them, fill the queue and none has been aggregated
C22_Witness ==
    /\ rev = "histogram"
    /\ \E w \in Workers :
         /\ mainPc[w] = "loop"
         /\ Len(reqCtxCh[w]) = QueueCap
         /\ stats[w].reqs = 0
         /\ \E s \in SlotIds : slotPc[w][s] = "do"

\* checkArgs has returned without an error
ArgsOk == argsPc \in {"checked", "benchmark", "normal"} /\ err = "nil"

\* C23: after a successful checkArgs on a default configuration bmEnabled is
\* true iff -bm-duration, -bm-conn and -bm-req-per-conn are all positive, and
\* run takes the benchmark mode exactly then, the normal mode otherwise.
C23_BenchmarkIffAllThreePositive ==
    /\ ArgsOk =>
         (config.bmEnabled <=>
            (flags.bmDuration > 0 /\ flags.bmConn > 0 /\ flags.bmReqPerConn > 0))
    /\ argsPc = "benchmark" =>
         (flags.bmDuration > 0 /\ flags.bmConn > 0 /\ flags.bmReqPerConn > 0)
    /\ argsPc = "normal" =>
         (flags.bmDuration <= 0 \/ flags.bmConn <= 0 \/ flags.bmReqPerConn <= 0)

\* two of the three options are positive and the third is not: normal mode
C23_Witness ==
    /\ argsPc = "normal"
    /\ flags.bmDuration > 0
    /\ flags.bmConn > 0
    /\ flags.bmReqPerConn = 0

\* the command line asks for benchmark mode
BenchmarkAsked(c) == c.bmDuration > 0 /\ c.bmConn > 0 /\ c.bmReqPerConn > 0

\* one of -o, -i, -I, -dump-cookie is given
OutputOptionGiven(c) ==
    c.outFilename # "" \/ c.headersIncluded \/ c.headersOnly \/ c.dumpCookie # ""

\* C24: when checkArgs succeeds with benchmark mode enabled, the
\* configuration has no output file, no header inclusion, no headers-only
\* flag and no cookie dump target, and noRedirect and insecure are true
\* whatever -k and -no-redirect were; when one of the four options is given
\* together with the three benchmark options, checkArgs returns an error
\* (and the run never starts).
C24_BenchmarkRefusesOutputOptions ==
    /\ (ArgsOk /\ config.bmEnabled) =>
         /\ config.outFilename = "" /\ config.dumpCookie = ""
         /\ ~config.headersIncluded /\ ~config.headersOnly
         /\ config.noRedirect /\ config.insecure
    /\ (argsPc # "parsed" /\ BenchmarkAsked(flags) /\ OutputOptionGiven(flags)) =>
         /\ err # "nil"
         /\ argsPc \in {"checked", "exited"}
         /\ flags \in BenchmarkArgs =>
              err = (IF flags.dumpCookie # ""
                     THEN "unsupport option in benchmark mode"
                     ELSE "output customization is not allowed in benchmark mode")

\* benchmark mode is entered from a command line without -k and without
\* -no-redirect
C24_Witness ==
    /\ argsPc = "benchmark"
    /\ ~flags.insecure /\ ~flags.noRedirect
    /\ config.insecure /\ config.noRedirect
    /\ ~OutputOptionGiven(config)

\* C25: when checkArgs succeeds, a non-zero maxTime bounds the other
\* timeouts, connectTimeout <= maxTime and idleTimeout <= maxTime, for every
\* combination of -max-time, -connect-timeout, -idle-timeout and the
\* benchmark options.
C25_MaxTimeBoundsTimeouts ==
    (ArgsOk /\ config.maxTime # 0) =>
        /\ config.connectTimeout <= config.maxTime
        /\ config.idleTimeout <= config.maxTime

\* up is str with every lower-case letter replaced by its capital
IsUpperOf(up, str) ==
    /\ Len(up) = Len(str)
    /\ \A i \in DOMAIN str :
         \/ /\ up[i] = str[i]
            /\ \A k \in DOMAIN LowerLetters : LowerLetters[k] # str[i]
         \/ \E k \in DOMAIN LowerLetters :
              LowerLetters[k] = str[i] /\ UpperLetters[k] = up[i]

\* C26: without -X a successful checkArgs leaves the method POST if -d or -F
\* was given, else HEAD if -I was given, else GET; with -X the method is
\* upper-cased, accepted iff it is then one of GET, HEAD, DELETE, POST, PATCH,
\* PUT, refused as unsupported iff it is CONNECT, OPTIONS or TRACE, and
\* refused as unknown otherwise.
C26_MethodChosenOrValidated ==
    /\ (ArgsOk /\ flags.method = <<>>) =>
         config.method = (IF flags.data \/ flags.forms THEN <<"P", "O", "S", "T">>
                          ELSE IF flags.headersOnly THEN <<"H", "E", "A", "D">>
                          ELSE <<"G", "E", "T">>)
    /\ (ArgsOk /\ flags.method # <<>>) =>
         /\ IsUpperOf(config.method, flags.method)
         /\ config.method \in {<<"G", "E", "T">>, <<"H", "E", "A", "D">>,
                               <<"D", "E", "L", "E", "T", "E">>, <<"P", "O", "S", "T">>,
                               <<"P", "A", "T", "C", "H">>, <<"P", "U", "T">>}
    /\ (argsPc # "parsed" /\ flags \in MethodArgs /\ flags.method # <<>>
          /\ ~(flags.data /\ flags.forms)) =>
         /\ IsUpperOf(config.method, flags.method)
         /\ err = "nil" <=>
              config.method \in {<<"G", "E", "T">>, <<"H", "E", "A", "D">>,
                                 <<"D", "E", "L", "E", "T", "E">>, <<"P", "O", "S", "T">>,
                                 <<"P", "A", "T", "C", "H">>, <<"P", "U", "T">>}
         /\ err = "method is unsupported" <=>
              config.method \in {<<"C", "O", "N", "N", "E", "C", "T">>,
                                 <<"O", "P", "T", "I", "O", "N", "S">>,
                                 <<"T", "R", "A", "C", "E">>}
         /\ err \in {"nil", "method is unsupported", "unknown method"}

\* -d and -I without -X: the method is POST
C26_Witness ==
    /\ argsPc = "normal"
    /\ flags.method = <<>>
    /\ flags.data /\ flags.headersOnly
    /\ config.method = MethodPost

\* the -resolve options, in the order given, whose host:port is the host
\* resolved
Matching == {i \in DOMAIN flags.resolve :
               <<flags.resolve[i][1], flags.resolve[i][2]>> = flags.host}

\* the destination a -resolve value names
Destination(value) ==
    IF Len(value) = 3 THEN <<value[3], value[2]>> ELSE <<value[3], value[4]>>

\* C27: resolveAddr(host) returns the destination of the last -resolve
\* option given whose host:port equals host exactly, and host itself when
\* there is none; an option for another port or another name never applies.
C27_LastMatchingResolveWins ==
    argsPc = "checked" =>
        IF Matching = {} THEN config.address = flags.host
        ELSE LET last == CHOOSE i \in Matching : \A j \in Matching : j <= i
             IN config.address = Destination(flags.resolve[last])

\* two options name the host resolved, with different destinations, and a
\* third names another port of it
C27_Witness ==
    /\ argsPc = "checked"
    /\ Cardinality(Matching) = 2
    /\ Len(flags.resolve) = 3
    /\ \E i \in Matching : Destination(flags.resolve[i]) # config.address
    /\ config.address # flags.host

\* C28: dumping a cookie manager to a file and loading the file into a fresh
\* cookie manager gives the same cookies: the load succeeds and the two
\* String() renderings are equal, for every set of cookies the jar can hold.
C28_DumpLoadRoundTrip ==
    cookiePc = "loaded" =>
        /\ err = "nil"
        /\ String(freshJar) = String(jar)

\* the contexts that have carried a request
Used == {a \in Addrs : oldReq[a] # NilReq}

\* C29: with -d or -F every attempt opens a new body and builds a new request,
\* so that no body stream is read by two attempts; the request of the
\* context's previous attempt is reused only when no body is configured (and
\* then whenever the context has one).
C29_NewBodyAndRequestPerAttempt ==
    /\ [](rev = "histogram" =>
            /\ \A b \in DOMAIN readBy : readBy[b] <= 1
            /\ config.body # "none" =>
                    /\ opened = TotalIssued /\ built = TotalIssued
                    /\ \A a \in Used : oldReq[a].body # 0
                    /\ \A a, b \in Used :
                          a # b => /\ oldReq[a].body # oldReq[b].body
                                   /\ oldReq[a].hdr # oldReq[b].hdr
            /\ config.body = "none" =>
                    /\ opened = 0
                    /\ built = Cardinality(Used)
                    /\ \A a \in Used : oldReq[a].body = 0)
    /\ [][(rev = "histogram" /\ issued' # issued) =>
            \E a \in Addrs :
                /\ \A b \in Addrs \ {a} : oldReq'[b] = oldReq[b]
                /\ IF config.body # "none"
                   THEN /\ oldReq'[a] = [hdr |-> built + 1, body |-> opened + 1]
                        /\ readBy' = Append(readBy, 1)
                   ELSE /\ oldReq[a] # NilReq => oldReq'[a] = oldReq[a] /\ built' = built
                        /\ oldReq[a] = NilReq => oldReq'[a] = [hdr |-> built + 1, body |-> 0]
                        /\ readBy' = readBy]_vars

\* a context that comes back from the pool is given a second request with a
\* second body: two attempts, one context
C29_Witness ==
    /\ rev = "histogram"
    /\ config.body = "forms"
    /\ TotalIssued = 2
    /\ Cardinality(Used) = 1
    /\ \E a \in Used : oldReq[a] = [hdr |-> 2, body |-> 2]
    /\ readBy = <<1, 1>>

\* C30: for every -F value the scanner leaves an even number of tokens, and
\* Set either appends exactly one form, with a non-empty name, or returns an
\* "invalid form" error and leaves fv.forms alone; it never indexes past its
\* tokens or its input (no run-time panic).
C30_SetReadsTokenPairs ==
    /\ [](argsPc # "panic")
    /\ [][flags'.form # flags.form =>
            LET raw == flags'.form[Len(flags'.form)]
            IN  /\ raw # <<>>
                /\ Len(Scan(raw).tokens) % 2 = 0
                /\ \/ /\ err' = "nil"
                      /\ Len(config'.forms) = Len(config.forms) + 1
                      /\ SubSeq(config'.forms, 1, Len(config.forms)) = config.forms
                      /\ config'.forms[Len(config'.forms)].name # <<>>
                   \/ /\ err' = "invalid form"
                      /\ config'.forms = config.forms]_vars

====
